---------------------------- MODULE Spec2Model ----------------------------
(* A model of the markdown-to-HTML core of the static site generator:       *)
(* src/src/markdown_inline.py, src/src/markdown_block.py,                   *)
(* src/src/textnode.py and src/src/htmlnode.py, and of the page generation  *)
(* of src/src/util.py.                                                      *)
(*                                                                          *)
(* A Python str is a sequence of one-character strings; None is the value   *)
(* None below, which is no such sequence.  A function that may raise        *)
(* returns a record [err, val]: err = NoErr and val the returned value, or  *)
(* err the exception and val = None.                                        *)
EXTENDS Integers, Sequences, FiniteSets, TLC

VARIABLES
    pc,             \* position of the running call
    err,            \* the exception that ended the call, NoErr if none
    markdown,       \* markdown_to_html_node: the document
    blocks,         \* markdown_to_html_node: markdown_to_blocks(markdown)
    children,       \* markdown_to_html_node: the children built so far
    html_node,      \* the HTML node a call returned
    html,           \* html_node.to_html()
    markdown_block, \* block_to_block_type / block_to_html_node: the block
    block_type,     \* block_to_block_type's result
    text,           \* text_to_text_nodes: the text
    text_nodes,     \* text_to_text_nodes: the span list after the last pass
    call,           \* the last split_nodes_* call: [fn, delimiter, text_type]
    old_nodes,      \* the argument of that call
    result,         \* the list that call returned, NoneSeq if it raised
    html_title,     \* generate_page: extract_title(markdown)
    dest_dir,       \* the files and directories under the destination
    content_dir,    \* the files and directories under dir_path_content
    frames          \* generate_pages_recursive: the running calls, the
                    \* innermost last, each with the items it has yet to visit

vars == <<pc, err, markdown, blocks, children, html_node, html, markdown_block,
          block_type, text, text_nodes, call, old_nodes, result, html_title,
          dest_dir, content_dir, frames>>

None == <<"None">>
NoErr == "none"

\* None where a list or a dict is expected (children, props): a value of the
\* shape of a list, equal to no list of nodes and to no dict
NoneSeq == <<[none |-> TRUE]>>

\* the backquote character, which a TLA+ string literal cannot hold
Backtick == "BACKTICK"

Ok(v) == [err |-> NoErr, val |-> v]
Raise(e) == [err |-> e, val |-> None]

\* the call r followed by F on the value it returned: an exception of r
\* propagates
Then(r, F(_)) == IF r.err # NoErr THEN r ELSE F(r.val)

(***************************************************************************)
(* Bounds of the checked input sets.                                       *)
(***************************************************************************)
MaxInlineTokens == 4
MaxSplitTokens == 3
MaxDocTokens == 4
MaxBlockTokens == 4
MaxSegmentLen == 6
MaxBlockLines == 3
MaxNodes == 4
MaxPool == 2
MaxCodeTokens == 3
MaxTreeDepth == 2

(***************************************************************************)
(* Python str and list primitives                                          *)
(***************************************************************************)
Min(a, b) == IF a < b THEN a ELSE b
Max(a, b) == IF a > b THEN a ELSE b

\* s[a:b] for 0 <= a, 0 <= b (0-based, half open, clipped to the string)
Slice(s, a, b) == SubSeq(s, Min(a, Len(s)) + 1, Min(b, Len(s)))

\* s[a:]
SliceFrom(s, a) == SubSeq(s, Min(a, Len(s)) + 1, Len(s))

\* s[a:-n] for n > 0
SliceFromTo(s, a, n) == Slice(s, a, Max(Len(s) - n, 0))

\* sep occurs in s at 1-based position i
IsAt(s, sep, i) ==
    /\ i >= 1
    /\ i + Len(sep) - 1 <= Len(s)
    /\ \A k \in 1..Len(sep) : s[i + k - 1] = sep[k]

StartsWith(s, prefix) == IsAt(s, prefix, 1)

EndsWith(s, suffix) == IsAt(s, suffix, Len(s) - Len(suffix) + 1)

RECURSIVE SplitFrom(_, _, _, _)
SplitFrom(s, sep, i, cur) ==
    IF i > Len(s) THEN <<cur>>
    ELSE IF IsAt(s, sep, i)
         THEN <<cur>> \o SplitFrom(s, sep, i + Len(sep), <<>>)
         ELSE SplitFrom(s, sep, i + 1, Append(cur, s[i]))

\* s.split(sep), sep non-empty: left to right, non-overlapping
PySplit(s, sep) == SplitFrom(s, sep, 1, <<>>)

\* s.split(sep, 1)
PySplit1(s, sep) ==
    LET hits == {i \in 1..Len(s) : IsAt(s, sep, i)}
    IN  IF hits = {} THEN <<s>>
        ELSE LET i == CHOOSE h \in hits : \A g \in hits : h <= g
             IN  <<SubSeq(s, 1, i - 1), SubSeq(s, i + Len(sep), Len(s))>>

IsSpace(c) == c \in {" ", "\n", "\t"}

\* s.strip()
Strip(s) ==
    LET keep == {i \in 1..Len(s) : ~IsSpace(s[i])}
    IN  IF keep = {} THEN <<>>
        ELSE SubSeq(s, CHOOSE i \in keep : \A j \in keep : i <= j,
                       CHOOSE i \in keep : \A j \in keep : i >= j)

\* s.lstrip(c)
RECURSIVE LStrip(_, _)
LStrip(s, c) == IF s # <<>> /\ s[1] = c THEN LStrip(Tail(s), c) ELSE s

\* s.splitlines(): no last empty line for a final line break
SplitLines(s) ==
    LET parts == PySplit(s, <<"\n">>)
    IN  IF parts[Len(parts)] = <<>> THEN SubSeq(parts, 1, Len(parts) - 1)
        ELSE parts

\* sep.join(parts)
RECURSIVE Join(_, _)
Join(sep, parts) ==
    IF parts = <<>> THEN <<>>
    ELSE IF Len(parts) = 1 THEN parts[1]
    ELSE parts[1] \o sep \o Join(sep, Tail(parts))

\* the concatenation of a sequence of sequences
RECURSIVE Flatten(_)
Flatten(ss) == IF ss = <<>> THEN <<>> ELSE ss[1] \o Flatten(Tail(ss))

(***************************************************************************)
(* textnode.py: TextType and TextNode                                      *)
(***************************************************************************)
TEXT == "text"
BOLD == "bold"
ITALIC == "italic"
CODE == "code"
LINK == "link"
IMAGE == "image"

TextNode(t, ty, u) == [text |-> t, text_type |-> ty, url |-> u]


(***************************************************************************)
(* markdown_inline.py                                                      *)
(***************************************************************************)
UnterminatedDelimiter == "Invalid markdown: formatted section not closed"
MalformedImageSyntax == "Invalid markdown: image not properly formatted"
MalformedLinkSyntax == "Invalid markup: link not properly formatted"

\* lines 27-33: the spans of the parts split_nodes[i..], i 0-based
RECURSIVE PartsLoop(_, _, _, _)
\* PartsLoop without the test for an empty part
PartsLoop_KeepEmpty(split_nodes, text_type, i, new_nodes) ==
    IF i >= Len(split_nodes) THEN new_nodes
    ELSE IF i % 2 = 0
         THEN PartsLoop(split_nodes, text_type, i + 1,
                        Append(new_nodes, TextNode(split_nodes[i + 1], TEXT, None)))
         ELSE PartsLoop(split_nodes, text_type, i + 1,
                        Append(new_nodes, TextNode(split_nodes[i + 1], text_type, None)))

PartsLoop(split_nodes, text_type, i, new_nodes) ==
    IF i >= Len(split_nodes) THEN new_nodes
    ELSE IF split_nodes[i + 1] = <<>>
         THEN PartsLoop(split_nodes, text_type, i + 1, new_nodes)
    ELSE IF i % 2 = 0
         THEN PartsLoop(split_nodes, text_type, i + 1,
                        Append(new_nodes, TextNode(split_nodes[i + 1], TEXT, None)))
         ELSE PartsLoop(split_nodes, text_type, i + 1,
                        Append(new_nodes, TextNode(split_nodes[i + 1], text_type, None)))

\* SplitParts without the test for an even number of parts
SplitParts_NeverRaises(split_nodes, text_type, new_nodes) ==
    Ok(PartsLoop(split_nodes, text_type, 0, new_nodes))

\* lines 24-33: the parts split_nodes of a Plain node
SplitParts(split_nodes, text_type, new_nodes) ==
    IF Len(split_nodes) % 2 = 0 THEN Raise(UnterminatedDelimiter)
    ELSE Ok(PartsLoop(split_nodes, text_type, 0, new_nodes))

RECURSIVE DelimiterLoop(_, _, _, _, _)
\* DelimiterLoop splitting the spans of every type
DelimiterLoop_SplitAll(nodes, delimiter, text_type, n, new_nodes) ==
    IF n > Len(nodes) THEN Ok(new_nodes)
    ELSE Then(SplitParts(PySplit(nodes[n].text, delimiter), text_type,
                         new_nodes),
              LAMBDA v : DelimiterLoop(nodes, delimiter, text_type, n + 1, v))

DelimiterLoop(nodes, delimiter, text_type, n, new_nodes) ==
    IF n > Len(nodes) THEN Ok(new_nodes)
    ELSE IF nodes[n].text_type # TEXT
         THEN DelimiterLoop(nodes, delimiter, text_type, n + 1,
                            Append(new_nodes, nodes[n]))
    ELSE Then(SplitParts(PySplit(nodes[n].text, delimiter), text_type,
                         new_nodes),
              LAMBDA v : DelimiterLoop(nodes, delimiter, text_type, n + 1, v))

split_nodes_delimiter(nodes, delimiter, text_type) ==
    DelimiterLoop(nodes, delimiter, text_type, 1, <<>>)

\* the least index >= i of s holding a character of cs, 0 if there is none
FirstOf(s, i, cs) ==
    LET hits == {j \in i..Len(s) : s[j] \in cs}
    IN  IF hits = {} THEN 0 ELSE CHOOSE j \in hits : \A k \in hits : j <= k

\* the bracket pattern shared by lines 48 and 65, matched at position i of
\* s: an opening square bracket, a text without square brackets, a closing
\* square bracket, an opening parenthesis, a url without parentheses, a
\* closing parenthesis.  end is the position of the closing parenthesis.
MatchBracket(s, i) ==
    LET no == [ok |-> FALSE, alt |-> <<>>, url |-> <<>>, end |-> 0]
        j  == FirstOf(s, i + 1, {"[", "]"})
        k  == FirstOf(s, j + 2, {"(", ")"})
    IN  IF ~(i >= 1 /\ i <= Len(s) /\ s[i] = "[") THEN no
        ELSE IF j = 0 \/ s[j] # "]" THEN no
        ELSE IF ~(j + 1 <= Len(s) /\ s[j + 1] = "(") THEN no
        ELSE IF k = 0 \/ s[k] # ")" THEN no
        ELSE [ok |-> TRUE, alt |-> SubSeq(s, i + 1, j - 1),
              url |-> SubSeq(s, j + 2, k - 1), end |-> k]

\* line 48: an exclamation mark, then the bracket pattern
MatchImage(s, i) ==
    IF i <= Len(s) /\ s[i] = "!" THEN MatchBracket(s, i + 1)
    ELSE [ok |-> FALSE, alt |-> <<>>, url |-> <<>>, end |-> 0]

\* line 65: the bracket pattern, not behind an exclamation mark
MatchLink(s, i) ==
    IF i > 1 /\ s[i - 1] = "!"
    THEN [ok |-> FALSE, alt |-> <<>>, url |-> <<>>, end |-> 0]
    ELSE MatchBracket(s, i)

\* re.findall: the scan resumes behind each match
RECURSIVE FindImagesFrom(_, _)
FindImagesFrom(s, i) ==
    IF i > Len(s) THEN <<>>
    ELSE LET m == MatchImage(s, i)
         IN  IF m.ok THEN <<<<m.alt, m.url>>>> \o FindImagesFrom(s, m.end + 1)
             ELSE FindImagesFrom(s, i + 1)

extract_markdown_images(s) == FindImagesFrom(s, 1)

RECURSIVE FindLinksFrom(_, _)
FindLinksFrom(s, i) ==
    IF i > Len(s) THEN <<>>
    ELSE LET m == MatchLink(s, i)
         IN  IF m.ok THEN <<<<m.alt, m.url>>>> \o FindLinksFrom(s, m.end + 1)
             ELSE FindLinksFrom(s, i + 1)

extract_markdown_links(s) == FindLinksFrom(s, 1)

\* f"![{image[0]}]({image[1]})"
ImageMarkup(image) ==
    <<"!", "[">> \o image[1] \o <<"]", "(">> \o image[2] \o <<")">>

\* f"[{link[0]}]({link[1]})"
LinkMarkup(link) == <<"[">> \o link[1] \o <<"]", "(">> \o link[2] \o <<")">>

\* lines 90-99: the images image_nodes[k..] taken out of node_text
RECURSIVE ImagePartsLoop(_, _, _, _)
\* lines 92-97: the image image_nodes[k], node_parts the text split at it
ImagePart(image_nodes, k, node_parts, new_nodes) ==
    IF Len(node_parts) # 2 THEN Raise(MalformedImageSyntax)
    ELSE ImagePartsLoop(image_nodes, k + 1, node_parts[2],
            Append(IF node_parts[1] # <<>>
                   THEN Append(new_nodes, TextNode(node_parts[1], TEXT, None))
                   ELSE new_nodes,
                   TextNode(image_nodes[k][1], IMAGE, image_nodes[k][2])))

ImagePartsLoop(image_nodes, k, node_text, new_nodes) ==
    IF k > Len(image_nodes)
    THEN Ok(IF node_text # <<>>
            THEN Append(new_nodes, TextNode(node_text, TEXT, None))
            ELSE new_nodes)
    ELSE ImagePart(image_nodes, k, PySplit1(node_text, ImageMarkup(image_nodes[k])),
                   new_nodes)

\* lines 84-99: a Plain node with its images image_nodes
ImageParts(node, image_nodes, new_nodes) ==
    IF Len(image_nodes) = 0 THEN Ok(Append(new_nodes, node))
    ELSE ImagePartsLoop(image_nodes, 1, node.text, new_nodes)

RECURSIVE ImageLoop(_, _, _)
ImageLoop(nodes, n, new_nodes) ==
    IF n > Len(nodes) THEN Ok(new_nodes)
    ELSE IF nodes[n].text_type # TEXT
         THEN ImageLoop(nodes, n + 1, Append(new_nodes, nodes[n]))
    ELSE Then(ImageParts(nodes[n], extract_markdown_images(nodes[n].text),
                         new_nodes),
              LAMBDA v : ImageLoop(nodes, n + 1, v))

split_nodes_image(nodes) == ImageLoop(nodes, 1, <<>>)

\* lines 125-134: the links link_nodes[k..] taken out of node_text
RECURSIVE LinkPartsLoop(_, _, _, _)
\* lines 126-132: the link link_nodes[k], node_parts the text split at it
LinkPart(link_nodes, k, node_parts, new_nodes) ==
    IF Len(node_parts) # 2 THEN Raise(MalformedLinkSyntax)
    ELSE LinkPartsLoop(link_nodes, k + 1, node_parts[2],
            Append(IF node_parts[1] # <<>>
                   THEN Append(new_nodes, TextNode(node_parts[1], TEXT, None))
                   ELSE new_nodes,
                   TextNode(link_nodes[k][1], LINK, link_nodes[k][2])))

LinkPartsLoop(link_nodes, k, node_text, new_nodes) ==
    IF k > Len(link_nodes)
    THEN Ok(IF node_text # <<>>
            THEN Append(new_nodes, TextNode(node_text, TEXT, None))
            ELSE new_nodes)
    ELSE LinkPart(link_nodes, k, PySplit1(node_text, LinkMarkup(link_nodes[k])),
                  new_nodes)

\* lines 119-134: a Plain node with its links link_nodes
LinkParts(node, link_nodes, new_nodes) ==
    IF Len(link_nodes) = 0 THEN Ok(Append(new_nodes, node))
    ELSE LinkPartsLoop(link_nodes, 1, node.text, new_nodes)

RECURSIVE LinkLoop(_, _, _)
LinkLoop(nodes, n, new_nodes) ==
    IF n > Len(nodes) THEN Ok(new_nodes)
    ELSE IF nodes[n].text_type # TEXT
         THEN LinkLoop(nodes, n + 1, Append(new_nodes, nodes[n]))
    ELSE Then(LinkParts(nodes[n], extract_markdown_links(nodes[n].text),
                        new_nodes),
              LAMBDA v : LinkLoop(nodes, n + 1, v))

split_nodes_link(nodes) == LinkLoop(nodes, 1, <<>>)

\* text_to_text_nodes as one function: the passes in the order of lines 153-157
text_to_text_nodes(t) ==
    Then(Then(Then(Then(
        split_nodes_delimiter(<<TextNode(t, TEXT, None)>>, <<"*", "*">>, BOLD),
        LAMBDA n : split_nodes_delimiter(n, <<"_">>, ITALIC)),
        LAMBDA n : split_nodes_delimiter(n, <<Backtick>>, CODE)),
        split_nodes_image),
        split_nodes_link)

(***************************************************************************)
(* htmlnode.py.  props is the dict as the sequence of its items            *)
(* [key, value] in insertion order.                                        *)
(***************************************************************************)
MissingValue == "Invalid HTML: no value given"
MissingTag == "Invalid HTML: no tag given"
MissingChildren == "Invalid HTML: no children nodes given"
NotImplemented == "to_html method not implemented"

HTMLNode(tag, value, kids, props) ==
    [cls |-> "HTMLNode", tag |-> tag, value |-> value, children |-> kids,
     props |-> props]

LeafNode(tag, value, props) ==
    [cls |-> "LeafNode", tag |-> tag, value |-> value, children |-> NoneSeq,
     props |-> props]

ParentNode(tag, kids, props) ==
    [cls |-> "ParentNode", tag |-> tag, value |-> None, children |-> kids,
     props |-> props]

\* f"{v}" of a str or None
Format(v) == IF v = None THEN <<"N", "o", "n", "e">> ELSE v

RECURSIVE PropsReduce(_, _, _)
\* PropsReduce with each attribute put before the ones reduced so far
PropsReduce_Prepend(items, k, acc) ==
    IF k > Len(items) THEN acc
    ELSE PropsReduce(items, k + 1,
                     <<" ">> \o items[k].key \o <<"=", "\"">>
                         \o Format(items[k].value) \o <<"\"">> \o acc)

PropsReduce(items, k, acc) ==
    IF k > Len(items) THEN acc
    ELSE PropsReduce(items, k + 1,
                     acc \o <<" ">> \o items[k].key \o <<"=", "\"">>
                         \o Format(items[k].value) \o <<"\"">>)

props_to_html(self) ==
    IF self.props = NoneSeq \/ self.props = <<>> THEN <<>>
    ELSE PropsReduce(self.props, 1, <<>>)

OpenTag(self) == <<"<">> \o self.tag \o props_to_html(self) \o <<">">>
CloseTag(self) == <<"<", "/">> \o self.tag \o <<">">>

RECURSIVE to_html(_)
RECURSIVE ChildrenToHtml(_, _, _)
\* ChildrenToHtml leaving out the children whose to_html raises
ChildrenToHtml_SkipRaising(kids, k, acc) ==
    IF k > Len(kids) THEN Ok(acc)
    ELSE IF to_html(kids[k]).err # NoErr THEN ChildrenToHtml(kids, k + 1, acc)
    ELSE Then(to_html(kids[k]),
              LAMBDA v : ChildrenToHtml(kids, k + 1, acc \o v))

\* lines 93-95: the serializations of children[k..] appended to acc
ChildrenToHtml(kids, k, acc) ==
    IF k > Len(kids) THEN Ok(acc)
    ELSE Then(to_html(kids[k]),
              LAMBDA v : ChildrenToHtml(kids, k + 1, acc \o v))

\* LeafToHtml taking the empty value for a missing one
LeafToHtml_EmptyIsMissing(self) ==
    IF self.value = None \/ self.value = <<>> THEN Raise(MissingValue)
    ELSE IF self.tag = None THEN Ok(self.value)
    ELSE Ok(OpenTag(self) \o self.value \o CloseTag(self))

LeafToHtml(self) ==
    IF self.value = None THEN Raise(MissingValue)
    ELSE IF self.tag = None THEN Ok(self.value)
    ELSE Ok(OpenTag(self) \o self.value \o CloseTag(self))

\* ParentToHtml taking the empty children for missing ones
ParentToHtml_EmptyIsMissing(self) ==
    IF self.tag = None THEN Raise(MissingTag)
    ELSE IF self.children = NoneSeq \/ self.children = <<>>
         THEN Raise(MissingChildren)
    ELSE Then(ChildrenToHtml(self.children, 1, <<>>),
              LAMBDA v : Ok(OpenTag(self) \o v \o CloseTag(self)))

ParentToHtml(self) ==
    IF self.tag = None THEN Raise(MissingTag)
    ELSE IF self.children = NoneSeq THEN Raise(MissingChildren)
    ELSE Then(ChildrenToHtml(self.children, 1, <<>>),
              LAMBDA v : Ok(OpenTag(self) \o v \o CloseTag(self)))

to_html(self) ==
    IF self.cls = "LeafNode" THEN LeafToHtml(self)
    ELSE IF self.cls = "ParentNode" THEN ParentToHtml(self)
    ELSE Raise(NotImplemented)

(***************************************************************************)
(* textnode.py: text_node_to_html_node                                     *)
(***************************************************************************)
InvalidTextType == "Invalid text type"

Item(k, v) == [key |-> k, value |-> v]

text_node_to_html_node(text_node) ==
    IF text_node.text_type = TEXT THEN Ok(LeafNode(None, text_node.text, NoneSeq))
    ELSE IF text_node.text_type = BOLD
         THEN Ok(LeafNode(<<"b">>, text_node.text, NoneSeq))
    ELSE IF text_node.text_type = ITALIC
         THEN Ok(LeafNode(<<"i">>, text_node.text, NoneSeq))
    ELSE IF text_node.text_type = CODE
         THEN Ok(LeafNode(<<"c", "o", "d", "e">>, text_node.text, NoneSeq))
    ELSE IF text_node.text_type = LINK
         THEN Ok(LeafNode(<<"a">>, text_node.text,
                          <<Item(<<"h", "r", "e", "f">>, text_node.url)>>))
    ELSE IF text_node.text_type = IMAGE
         THEN Ok(LeafNode(<<"i", "m", "g">>, <<>>,
                          <<Item(<<"s", "r", "c">>, text_node.url),
                            Item(<<"a", "l", "t">>, text_node.text)>>))
    ELSE Raise(InvalidTextType)

(***************************************************************************)
(* markdown_block.py                                                       *)
(***************************************************************************)
PARAGRAPH == "paragraph"
HEADING == "heading"
CODE_BLOCK == "code"
QUOTE == "quote"
UNORDERED_LIST == "unordered_list"
ORDERED_LIST == "ordered_list"

IndexError == "string index out of range"
InvalidHeading == "invalid heading level"
InvalidCodeBlock == "invalid code block"
InvalidQuoteBlock == "invalid quote block"
InvalidBlockType == "invalid block type"

Fence == <<Backtick, Backtick, Backtick>>

\* list(filter(lambda x: x != "", list(map(lambda x: x.strip(), ...))))
StripAndDropEmpty(pieces) ==
    SelectSeq([k \in 1..Len(pieces) |-> Strip(pieces[k])], LAMBDA x : x # <<>>)

\* markdown_to_blocks without the filter of line 39
markdown_to_blocks_KeepEmpty(md) ==
    [k \in 1..Len(PySplit(md, <<"\n", "\n">>)) |->
        Strip(PySplit(md, <<"\n", "\n">>)[k])]

markdown_to_blocks(md) == StripAndDropEmpty(PySplit(md, <<"\n", "\n">>))

ListIndexError == "list index out of range"
MissingH1Header == "Invalid Markdown: markdown must begin with h1 header"

\* line 55: blocks[0]
FirstBlock(blocks_) ==
    IF blocks_ = <<>> THEN Raise(ListIndexError) ELSE Ok(blocks_[1])

\* lines 56-58
TitleOf(header) ==
    IF ~StartsWith(header, <<"#", " ">>) THEN Raise(MissingH1Header)
    ELSE Ok(SliceFrom(header, 2))

\* extract_title taking the first block that starts with the h1 prefix
extract_title_AnyBlock(md) ==
    IF \E k \in 1..Len(markdown_to_blocks(md)) :
          StartsWith(markdown_to_blocks(md)[k], <<"#", " ">>)
    THEN TitleOf(SelectSeq(markdown_to_blocks(md),
                           LAMBDA b : StartsWith(b, <<"#", " ">>))[1])
    ELSE Raise(MissingH1Header)

extract_title(md) == Then(FirstBlock(markdown_to_blocks(md)), TitleOf)

\* the number of "#" the block starts with
RECURSIVE LeadingHashes(_)
LeadingHashes(b) ==
    IF b # <<>> /\ b[1] = "#" THEN 1 + LeadingHashes(Tail(b)) ELSE 0

\* line 78, pattern.match(b): 1 to 6 "#", then whitespace b[n+1..q], then
\* b[q+1..r] without a line break, r the end of b or the position before a
\* line break that ends b
HeadingMatch(b) ==
    LET n == LeadingHashes(b)
    IN  /\ n >= 1
        /\ n <= 6
        /\ \E q \in (n + 1)..Len(b) : \E r \in (q + 1)..Len(b) :
              /\ \A k \in (n + 1)..q : IsSpace(b[k])
              /\ \A k \in (q + 1)..r : b[k] # "\n"
              /\ \/ r = Len(b)
                 \/ r = Len(b) - 1 /\ b[Len(b)] = "\n"

\* line 79, pattern.match(b) under MULTILINE: a fence at the start of b and
\* a later fence at the end of b or of one of its lines
CodeMatch(b) ==
    /\ StartsWith(b, Fence)
    /\ \E j \in 4..Len(b) :
          /\ IsAt(b, Fence, j)
          /\ \/ j + 2 = Len(b)
             \/ b[j + 3] = "\n"

\* QuoteMatch with the mark looked for anywhere in the line
QuoteMatch_Anywhere(line) == \E k \in 1..Len(line) : line[k] = ">"

\* line 83, pattern.match(line)
QuoteMatch(line) == line # <<>> /\ line[1] = ">"

\* line 84, pattern.match(line)
UnorderedMatch(line) == StartsWith(line, <<"-", " ">>) /\ Len(line) >= 3

Digits == <<"0", "1", "2", "3", "4", "5", "6", "7", "8", "9">>
IsDigit(c) == \E d \in 1..10 : Digits[d] = c
DigitValue(c) == (CHOOSE d \in 1..10 : Digits[d] = c) - 1

\* the number of digits the line starts with
RECURSIVE LeadingDigits(_)
LeadingDigits(line) ==
    IF line # <<>> /\ IsDigit(line[1]) THEN 1 + LeadingDigits(Tail(line)) ELSE 0

\* int(digits)
RECURSIVE ParseInt(_)
ParseInt(digits) ==
    IF digits = <<>> THEN 0
    ELSE 10 * ParseInt(SubSeq(digits, 1, Len(digits) - 1))
         + DigitValue(digits[Len(digits)])

\* line 96: pattern.match(line) and int(match.group(1)) == i
OrderedMatch(line, i) ==
    LET d == LeadingDigits(line)
    IN  /\ d >= 1
        /\ IsAt(line, <<".", " ">>, d + 1)
        /\ Len(line) >= d + 3
        /\ ParseInt(SubSeq(line, 1, d)) = i

\* line 93
NonBlankLines(b) == SelectSeq(SplitLines(b), LAMBDA line : Strip(line) # <<>>)

\* lines 94-103: the single-line patterns, in their order, on the lines
LinesType(lines) ==
    IF \A k \in 1..Len(lines) : QuoteMatch(lines[k]) THEN QUOTE
    ELSE IF \A k \in 1..Len(lines) : UnorderedMatch(lines[k])
         THEN UNORDERED_LIST
    ELSE IF \A k \in 1..Len(lines) : OrderedMatch(lines[k], k)
         THEN ORDERED_LIST
    ELSE PARAGRAPH

block_to_block_type(b) ==
    IF b = <<>> THEN Raise(IndexError)
    ELSE IF b[1] \in {"#", Backtick}
    THEN IF HeadingMatch(b) THEN Ok(HEADING)
         ELSE IF CodeMatch(b) THEN Ok(CODE_BLOCK)
         ELSE Ok(PARAGRAPH)
    ELSE Ok(LinesType(NonBlankLines(b)))

\* lines 167-171
RECURSIVE NodesToHtmlNodes(_, _, _)
NodesToHtmlNodes(nodes, k, kids) ==
    IF k > Len(nodes) THEN Ok(kids)
    ELSE Then(text_node_to_html_node(nodes[k]),
              LAMBDA v : NodesToHtmlNodes(nodes, k + 1, Append(kids, v)))

text_to_children(t) ==
    Then(text_to_text_nodes(t), LAMBDA v : NodesToHtmlNodes(v, 1, <<>>))

paragraph_to_html_node(block) ==
    Then(text_to_children(Join(<<" ">>, PySplit(block, <<"\n">>))),
         LAMBDA v : Ok(ParentNode(<<"p">>, v, NoneSeq)))

\* str(n) for 0 <= n
RECURSIVE IntStr(_)
IntStr(n) ==
    IF n < 10 THEN <<Digits[n + 1]>>
    ELSE IntStr(n \div 10) \o <<Digits[(n % 10) + 1]>>

\* lines 209-213: the heading of the counted level
HeadingOfLevel(block, level) ==
    IF level + 1 >= Len(block) THEN Raise(InvalidHeading)
    ELSE Then(text_to_children(SliceFrom(block, level + 1)),
              LAMBDA v : Ok(ParentNode(<<"h">> \o IntStr(level), v, NoneSeq)))

\* heading_to_html_node with the '#' kept in the text
heading_to_html_node_KeepHashes(block) ==
    HeadingOfLevel(<<"#">> \o block, LeadingHashes(block))

heading_to_html_node(block) == HeadingOfLevel(block, LeadingHashes(block))

\* code_to_html_node with the text between the fences split inline
code_to_html_node_Inline(block) ==
    IF ~StartsWith(block, Fence) \/ ~EndsWith(block, Fence)
    THEN Raise(InvalidCodeBlock)
    ELSE Then(text_to_children(SliceFromTo(block, 4, 3)),
              LAMBDA v :
                  Ok(ParentNode(<<"p", "r", "e">>,
                                <<ParentNode(<<"c", "o", "d", "e">>, v,
                                             NoneSeq)>>,
                                NoneSeq)))

code_to_html_node(block) ==
    IF ~StartsWith(block, Fence) \/ ~EndsWith(block, Fence)
    THEN Raise(InvalidCodeBlock)
    ELSE Then(text_node_to_html_node(
                  TextNode(SliceFromTo(block, 4, 3), TEXT, None)),
              LAMBDA child :
                  Ok(ParentNode(<<"p", "r", "e">>,
                                <<ParentNode(<<"c", "o", "d", "e">>, <<child>>,
                                             NoneSeq)>>,
                                NoneSeq)))

\* lines 250-253 and 269-272: an li for each of items[k..], the first
\* width characters of the item left out
RECURSIVE ItemsLoop(_, _, _, _)
ItemsLoop(items, width, k, html_items) ==
    IF k > Len(items) THEN Ok(html_items)
    ELSE Then(text_to_children(SliceFrom(items[k], width)),
              LAMBDA v : ItemsLoop(items, width, k + 1,
                                   Append(html_items,
                                          ParentNode(<<"l", "i">>, v, NoneSeq))))

\* lines 248-254 and 267-273: the list with the given tag and marker width
ListToHtmlNode(block, tag, width) ==
    Then(ItemsLoop(PySplit(block, <<"\n">>), width, 1, <<>>),
         LAMBDA v : Ok(ParentNode(tag, v, NoneSeq)))

\* olist_to_html_node with four characters of each line left out
olist_to_html_node_Width4(block) == ListToHtmlNode(block, <<"o", "l">>, 4)

olist_to_html_node(block) == ListToHtmlNode(block, <<"o", "l">>, 3)

ulist_to_html_node(block) == ListToHtmlNode(block, <<"u", "l">>, 2)

\* lines 291-294
RECURSIVE QuoteLinesLoop(_, _, _)
QuoteLinesLoop(lines, k, new_lines) ==
    IF k > Len(lines) THEN Ok(new_lines)
    ELSE IF ~StartsWith(lines[k], <<">">>) THEN Raise(InvalidQuoteBlock)
    ELSE QuoteLinesLoop(lines, k + 1,
                        Append(new_lines, Strip(LStrip(lines[k], ">"))))

quote_to_html_node(block) ==
    Then(Then(QuoteLinesLoop(PySplit(block, <<"\n">>), 1, <<>>),
              LAMBDA new_lines : text_to_children(Join(<<" ">>, new_lines))),
         LAMBDA v :
             Ok(ParentNode(<<"b", "l", "o", "c", "k", "q", "u", "o", "t", "e">>,
                           v, NoneSeq)))

\* lines 138-150: the assembler of a block of the given type
AssembleBlock(block, ty) ==
    IF ty = PARAGRAPH THEN paragraph_to_html_node(block)
    ELSE IF ty = HEADING THEN heading_to_html_node(block)
    ELSE IF ty = CODE_BLOCK THEN code_to_html_node(block)
    ELSE IF ty = ORDERED_LIST THEN olist_to_html_node(block)
    ELSE IF ty = UNORDERED_LIST THEN ulist_to_html_node(block)
    ELSE IF ty = QUOTE THEN quote_to_html_node(block)
    ELSE Raise(InvalidBlockType)

block_to_html_node(block) ==
    Then(block_to_block_type(block), LAMBDA ty : AssembleBlock(block, ty))

(***************************************************************************)
(* util.py: the destination tree, generate_page                            *)
(***************************************************************************)
FileNotFoundError == "FileNotFoundError"
NotADirectoryError == "NotADirectoryError"
IsADirectoryError == "IsADirectoryError"

\* markdown_block.py lines 117-119 as one loop
RECURSIVE BlocksToChildren(_, _, _)
BlocksToChildren(bs, k, kids) ==
    IF k > Len(bs) THEN Ok(kids)
    ELSE Then(block_to_html_node(bs[k]),
              LAMBDA v : BlocksToChildren(bs, k + 1, Append(kids, v)))

\* markdown_block.py lines 115-120
markdown_to_html_node(md) ==
    Then(BlocksToChildren(markdown_to_blocks(md), 1, <<>>),
         LAMBDA v : Ok(ParentNode(<<"d", "i", "v">>, v, NoneSeq)))

\* s.replace(old, new) from position i on, for a non-empty old: the
\* occurrences of old from left to right, none overlapping the one before
RECURSIVE ReplaceFrom(_, _, _, _)
ReplaceFrom(s, i, old, new) ==
    LET hits == {j \in i..Len(s) : IsAt(s, old, j)}
        first == CHOOSE j \in hits : \A k \in hits : j <= k
    IN  IF hits = {} THEN SubSeq(s, i, Len(s))
        ELSE SubSeq(s, i, first - 1) \o new
                 \o ReplaceFrom(s, first + Len(old), old, new)

Replace(s, old, new) == ReplaceFrom(s, 1, old, new)

\* lines 59-62
FillTemplate(template_content, title, content, basepath) ==
    Replace(
        Replace(
            Replace(
                Replace(template_content,
                        <<"{", "{", " ", "T", "i", "t", "l", "e", " ", "}",
                          "}">>,
                        title),
                <<"{", "{", " ", "C", "o", "n", "t", "e", "n", "t", " ", "}",
                  "}">>,
                content),
            <<"h", "r", "e", "f", "=", "\"", "/">>,
            <<"h", "r", "e", "f", "=", "\"">> \o basepath),
        <<"s", "r", "c", "=", "\"", "/">>,
        <<"s", "r", "c", "=", "\"">> \o basepath)

\* lines 56-62: the page of a markdown document
PageOf(md_content, template_content, basepath) ==
    Then(Then(markdown_to_html_node(md_content), to_html),
         LAMBDA content :
             Then(extract_title(md_content),
                  LAMBDA title :
                      Ok(FillTemplate(template_content, title, content,
                                      basepath))))

\* a file tree is a set of entries; a path is the sequence of the names
\* from the root of the tree, the root being the empty path
Dir(path) == [path |-> path, kind |-> "dir", text |-> <<>>]
File(path, t) == [path |-> path, kind |-> "file", text |-> t]

NoTree == {}

\* os.path.exists, os.path.isfile, os.path.isdir
Exists(tree, path) == \E e \in tree : e.path = path
IsFile(tree, path) == \E e \in tree : e.path = path /\ e.kind = "file"
IsDir(tree, path) == \E e \in tree : e.path = path /\ e.kind = "dir"

\* open(path).read()
ReadFile(tree, path) == (CHOOSE e \in tree : e.path = path).text

\* os.path.dirname
DirName(path) == SubSeq(path, 1, Len(path) - 1)

\* the names os.listdir(path) returns, in no order
ListDir(tree, path) ==
    {e.path[Len(e.path)] : e \in {f \in tree : /\ Len(f.path) = Len(path) + 1
                                                /\ DirName(f.path) = path}}

\* os.makedirs(path, exist_ok=True)
MakeDirs(tree, path) ==
    IF \E k \in 0..Len(path) : IsFile(tree, SubSeq(path, 1, k))
    THEN Raise(NotADirectoryError)
    ELSE Ok(tree \cup {Dir(SubSeq(path, 1, k)) : k \in 0..Len(path)})

\* lines 67-68: open(path, "w") and write
WriteFile(tree, path, t) ==
    IF IsDir(tree, path) THEN Raise(IsADirectoryError)
    ELSE IF IsFile(tree, DirName(path)) THEN Raise(NotADirectoryError)
    ELSE IF ~IsDir(tree, DirName(path)) THEN Raise(FileNotFoundError)
    ELSE Ok({e \in tree : e.path # path} \cup {File(path, t)})

\* lines 64-68
WritePageTo(tree, dest_path, page) ==
    Then(IF ~Exists(tree, dest_path) THEN MakeDirs(tree, DirName(dest_path))
         ELSE Ok(tree),
         LAMBDA made : WriteFile(made, dest_path, page))

\* lines 50-68: the destination tree after generate_page
generate_page(tree, md_content, template_content, dest_path, basepath) ==
    Then(PageOf(md_content, template_content, basepath),
         LAMBDA page : WritePageTo(tree, dest_path, page))

\* pathlib: Path(name).suffix
LastDot(name) ==
    LET dots == {i \in 1..Len(name) : name[i] = "."}
    IN  IF dots = {} THEN 0 ELSE CHOOSE i \in dots : \A j \in dots : j <= i

Suffix(name) ==
    IF LastDot(name) > 1 /\ LastDot(name) < Len(name)
    THEN SubSeq(name, LastDot(name), Len(name))
    ELSE <<>>

\* pathlib: Path(path).with_suffix(suffix)
WithSuffix(path, suffix) ==
    LET name == path[Len(path)]
    IN  Append(DirName(path),
               SubSeq(name, 1, Len(name) - Len(Suffix(name))) \o suffix)

(***************************************************************************)
(* The checked inputs: every concatenation of at most n tokens             *)
(***************************************************************************)
Words(tokens, n) ==
    {Flatten(w) : w \in UNION {[1..k -> tokens] : k \in 0..n}}

DocTokens ==
    {<<"#", " ", "T">>, <<"\n", "\n">>, <<"\n">>, <<"-", " ", "x">>,
     <<"a">>, <<"_">>}

SegmentChars == {<<"a">>, <<" ">>, <<"\n">>}

\* documents of test_markdown_block.py and of the spec's examples
TestDocs ==
    {<<"#", " ", "T", "\n", "\n", "-", " ", "x", "\n", "-", " ", "y">>,
     <<"a", "\n", "\n", "b", "\n", "\n", "\n", "\n", "c">>,
     <<"\n", "a", " ", "*", "*", "b", "*", "*", "\n", "c", "\n", "\n",
       "_", "i", "_", " ", Backtick, "c", Backtick, "\n", "\n">>,
     <<"\n", Backtick, Backtick, Backtick, "\n", "_", "a", "_", "\n",
       Backtick, Backtick, Backtick, "\n">>}

Docs ==
    Words(DocTokens, MaxDocTokens) \cup Words(SegmentChars, MaxSegmentLen)
        \cup TestDocs

BlockTokens ==
    {Fence, <<"\n">>, <<"a">>, <<" ">>, <<"#">>, <<">">>, <<"-", " ">>,
     <<"1", ".", " ">>}

\* the lines of the blocks of test_block_to_block_types, cut short
BlockLineTokens ==
    {<<"#", " ", "a">>, <<"1", ".", " ", "a">>, <<"2", ".", " ", "a">>,
     <<"3", ".", " ", "a">>, <<"2", ".", " ">>, <<"-", " ", "a">>,
     <<"-", " ">>, <<"-", "a">>, <<">", "a">>, <<"a">>, <<" ">>}

\* the blocks of up to MaxBlockLines of these lines
LineBlocks ==
    {Join(<<"\n">>, ls) :
        ls \in UNION {[1..k -> BlockLineTokens] : k \in 1..MaxBlockLines}}

CodeTokens ==
    {<<"a">>, <<"*", "*">>, <<"_">>, <<Backtick>>, <<"\n">>, <<"!">>,
     <<"[", "a", "]", "(", "u", ")">>}

\* the fenced blocks with a body of up to MaxCodeTokens of these tokens
CodeBlocks ==
    {Fence \o <<"\n">> \o body \o Fence : body \in Words(CodeTokens, MaxCodeTokens)}

\* the blocks of test_ordered_list and test_heading, cut short: ordered items
\* up to ordinal 10, headings of six and of seven '#', and blocks with inline
\* markup, closed and not closed
TestBlocks ==
    {Join(<<"\n">>, [i \in 1..10 |-> IntStr(i) \o <<".", " ", "a">>]),
     <<"#", "#", "#", "#", "#", "#", " ", "a">>,
     <<"#", "#", "#", "#", "#", "#", "#", " ", "a">>,
     <<"#", "#", " ", "a", " ", "b">>,
     <<"#", " ", "_", "a", "_">>,
     <<"#", " ", "_", "a">>,
     <<"-", " ", "a", "\n", "-", " ", "_", "a">>,
     <<"1", ".", " ", "_", "a", "_", "\n", "2", ".", " ", "*", "*", "a">>,
     <<">", "a", "\n", ">", " ", "_", "a">>}

Blocks ==
    Words(BlockTokens, MaxBlockTokens) \cup LineBlocks \cup CodeBlocks
        \cup TestBlocks

\* a template with both placeholders and a root-relative href and src
TemplateContent ==
    <<"<", "t", "i", "t", "l", "e", ">",
      "{", "{", " ", "T", "i", "t", "l", "e", " ", "}", "}",
      "<", "/", "t", "i", "t", "l", "e", ">",
      "<", "l", "i", "n", "k", " ", "h", "r", "e", "f", "=", "\"", "/", "i",
      ".", "c", "s", "s", "\"", ">",
      "<", "i", "m", "g", " ", "s", "r", "c", "=", "\"", "/", "i", ".", "p",
      "n", "g", "\"", ">",
      "{", "{", " ", "C", "o", "n", "t", "e", "n", "t", " ", "}", "}">>

BasePath == <<"/", "b", "/">>

\* the dest_path of the one page of Spec
DestPath == <<<<"i", "n", "d", "e", "x", ".", "h", "t", "m", "l">>>>

\* the destination before generate_page: nothing, or a directory holding an
\* older page at dest_path
DestTrees == {NoTree, {Dir(<<>>), File(DestPath, <<"o", "l", "d">>)}}

MdName == <<"a", ".", "m", "d">>
OtherName == <<"b", ".", "p", "n", "g">>
DirNames == {<<"d">>, <<"e", ".", "m", "d">>}

\* the contents of the .md files: a page with a root-relative link, and a
\* document without an h1 header
MdTexts ==
    {<<"#", " ", "T", "\n", "\n", "[", "a", "]", "(", "/", "u", ")">>,
     <<"a">>}

\* the files a directory can hold: a.md or not, b.png or not
FileSets(path) ==
    {md \cup other :
        md \in {{}} \cup {{File(Append(path, MdName), t)} : t \in MdTexts},
        other \in {{}, {File(Append(path, OtherName), <<"P", "N", "G">>)}}}

\* the trees rooted in a directory at path, with directories nested up to
\* depth below it, each directory holding at most one subdirectory
RECURSIVE TreesAt(_, _)
TreesAt(path, depth) ==
    {{Dir(path)} \cup files \cup sub :
        files \in FileSets(path),
        sub \in IF depth = 0 THEN {{}}
                ELSE {{}} \cup UNION {TreesAt(Append(path, d), depth - 1) :
                                        d \in DirNames}}

InlineTokens ==
    {<<"a">>, <<"*", "*">>, <<"_">>, <<Backtick>>, <<"!">>,
     <<"[", "a", "]", "(", "u", ")">>}

InlineTexts == Words(InlineTokens, MaxInlineTokens)

SplitTokens ==
    {<<"a">>, <<"*">>, <<"_">>, <<"!">>, <<"[", "a", "]", "(", "u", ")">>}

\* the lists of no, one or two spans that cut the text w in two at some
\* position
SpanLists(w) ==
    {<<>>} \cup
    UNION {{<<TextNode(SubSeq(w, 1, c), t1, None)>>,
            <<TextNode(SubSeq(w, 1, c), t1, None),
              TextNode(SubSeq(w, c + 1, Len(w)), t2, None)>>}
           : c \in 0..Len(w), t1 \in {TEXT, BOLD}, t2 \in {TEXT, BOLD}}

Delimiters ==
    {[delimiter |-> <<"*", "*">>, text_type |-> BOLD],
     [delimiter |-> <<"_">>, text_type |-> ITALIC],
     [delimiter |-> <<Backtick>>, text_type |-> CODE]}

(***************************************************************************)
(* The state after construction                                            *)
(***************************************************************************)
NoCall == [fn |-> "none", delimiter |-> <<>>, text_type |-> TEXT]
NoNode == LeafNode(None, None, NoneSeq)

Idle ==
    /\ err = NoErr
    /\ blocks = <<>>
    /\ children = <<>>
    /\ html_node = NoNode
    /\ html = None
    /\ block_type = PARAGRAPH
    /\ text_nodes = <<>>
    /\ call = NoCall
    /\ result = NoneSeq
    /\ html_title = None

\* no page generation is running
NoPages ==
    /\ content_dir = NoTree
    /\ frames = <<>>

\* generate_page of a document: lines 56-68 of util.py
Init ==
    /\ Idle
    /\ NoPages
    /\ dest_dir \in DestTrees
    /\ pc = "start"
    /\ markdown \in Docs
    /\ markdown_block = <<>>
    /\ text = <<>>
    /\ old_nodes = <<>>

\* block_to_html_node(markdown_block).to_html() of any string
InitClassify ==
    /\ Idle
    /\ NoPages
    /\ dest_dir = NoTree
    /\ pc = "classify"
    /\ markdown = <<>>
    /\ markdown_block \in Blocks
    /\ text = <<>>
    /\ old_nodes = <<>>

\* text_to_text_nodes(text)
InitInline ==
    /\ Idle
    /\ NoPages
    /\ dest_dir = NoTree
    /\ pc = "wrap"
    /\ markdown = <<>>
    /\ markdown_block = <<>>
    /\ text \in InlineTexts
    /\ old_nodes = <<>>

\* one of the split_nodes_* functions called with any list of spans
InitSplit ==
    /\ Idle
    /\ NoPages
    /\ dest_dir = NoTree
    /\ pc = "call"
    /\ markdown = <<>>
    /\ markdown_block = <<>>
    /\ text = <<>>
    /\ \E w \in Words(SplitTokens, MaxSplitTokens) : old_nodes \in SpanLists(w)

(***************************************************************************)
(* markdown_to_html_node, one step per block, and to_html                  *)
(***************************************************************************)
\* lines 115-116
MarkdownToBlocks ==
    /\ pc = "start"
    /\ blocks' = markdown_to_blocks(markdown)
    /\ children' = <<>>
    /\ pc' = "loop"
    /\ UNCHANGED <<dest_dir, content_dir, frames, html_title, err, markdown, html_node, html, markdown_block, block_type,
                   text, text_nodes, call, old_nodes, result>>

\* the loop step with children.insert(0, html_node) for line 119
BlockToHtmlNode_Prepend ==
    /\ pc = "loop"
    /\ Len(children) < Len(blocks)
    /\ LET r == block_to_html_node(blocks[Len(children) + 1])
       IN  IF r.err # NoErr
           THEN /\ err' = r.err
                /\ pc' = "raised"
                /\ UNCHANGED children
           ELSE /\ children' = <<r.val>> \o children
                /\ UNCHANGED <<err, pc>>
    /\ UNCHANGED <<dest_dir, content_dir, frames, html_title, markdown, blocks, html_node, html, markdown_block,
                   block_type, text, text_nodes, call, old_nodes, result>>

\* lines 117-119: the next block of the loop
BlockToHtmlNode ==
    /\ pc = "loop"
    /\ Len(children) < Len(blocks)
    /\ LET r == block_to_html_node(blocks[Len(children) + 1])
       IN  IF r.err # NoErr
           THEN /\ err' = r.err
                /\ pc' = "raised"
                /\ UNCHANGED children
           ELSE /\ children' = Append(children, r.val)
                /\ UNCHANGED <<err, pc>>
    /\ UNCHANGED <<dest_dir, content_dir, frames, html_title, markdown, blocks, html_node, html, markdown_block, block_type,
                   text, text_nodes, call, old_nodes, result>>

\* line 120
ReturnDiv ==
    /\ pc = "loop"
    /\ Len(children) = Len(blocks)
    /\ html_node' = ParentNode(<<"d", "i", "v">>, children, NoneSeq)
    /\ pc' = "returned"
    /\ UNCHANGED <<dest_dir, content_dir, frames, html_title, err, markdown, blocks, children, html, markdown_block,
                   block_type, text, text_nodes, call, old_nodes, result>>

\* util.py line 56: .to_html() of the returned node
ToHtml ==
    /\ pc = "returned"
    /\ LET r == to_html(html_node)
       IN  IF r.err # NoErr
           THEN /\ err' = r.err
                /\ pc' = "raised"
                /\ UNCHANGED html
           ELSE /\ html' = r.val
                /\ pc' = "serialized"
                /\ UNCHANGED err
    /\ UNCHANGED <<dest_dir, content_dir, frames, html_title, markdown, blocks, children, html_node, markdown_block,
                   block_type, text, text_nodes, call, old_nodes, result>>

\* ExtractTitle with dest_path opened for writing before the title is known
ExtractTitle_OpensFirst ==
    /\ pc = "serialized"
    /\ dest_dir' = WritePageTo(dest_dir, DestPath, <<>>).val
    /\ LET r == extract_title(markdown)
       IN  IF r.err # NoErr
           THEN /\ err' = r.err
                /\ pc' = "raised"
                /\ UNCHANGED html_title
           ELSE /\ html_title' = r.val
                /\ pc' = "titled"
                /\ UNCHANGED err
    /\ UNCHANGED <<content_dir, frames, markdown, blocks, children,
                   html_node, html, markdown_block, block_type, text,
                   text_nodes, call, old_nodes, result>>

\* util.py line 57: extract_title(md_content)
ExtractTitle ==
    /\ pc = "serialized"
    /\ LET r == extract_title(markdown)
       IN  IF r.err # NoErr
           THEN /\ err' = r.err
                /\ pc' = "raised"
                /\ UNCHANGED html_title
           ELSE /\ html_title' = r.val
                /\ pc' = "titled"
                /\ UNCHANGED err
    /\ UNCHANGED <<dest_dir, content_dir, frames, markdown, blocks, children,
                   html_node, html, markdown_block, block_type, text,
                   text_nodes, call, old_nodes, result>>

\* util.py lines 59-68: the template filled in and written to dest_path
WritePage ==
    /\ pc = "titled"
    /\ LET r == WritePageTo(dest_dir, DestPath,
                            FillTemplate(TemplateContent, html_title, html,
                                         BasePath))
       IN  IF r.err # NoErr
           THEN /\ err' = r.err
                /\ pc' = "raised"
                /\ UNCHANGED dest_dir
           ELSE /\ dest_dir' = r.val
                /\ pc' = "written"
                /\ UNCHANGED err
    /\ UNCHANGED <<content_dir, frames, html_title, markdown, blocks, children,
                   html_node, html, markdown_block, block_type, text,
                   text_nodes, call, old_nodes, result>>

Next ==
    \/ MarkdownToBlocks
    \/ BlockToHtmlNode
    \/ ReturnDiv
    \/ ToHtml
    \/ ExtractTitle
    \/ WritePage

Spec == Init /\ [][Next]_vars

(***************************************************************************)
(* generate_pages_recursive over a content tree, one step per item         *)
(***************************************************************************)
Frame(src, dst, items) ==
    [dir_path_content |-> src, dest_dir_path |-> dst, items |-> items]

InitPages ==
    /\ Idle
    /\ pc = "call"
    /\ markdown = <<>>
    /\ markdown_block = <<>>
    /\ text = <<>>
    /\ old_nodes = <<>>
    /\ content_dir \in TreesAt(<<>>, MaxTreeDepth) \cup {NoTree}
    /\ dest_dir \in {NoTree, {Dir(<<>>)}}
    /\ frames = <<>>

\* lines 81-87 of the call for the directory src, the calls below it being
\* calls: the checks and os.listdir, which raises for a path that is no
\* directory
Enter(calls, src, dst) ==
    IF ~Exists(content_dir, src)
    THEN /\ err' = FileNotFoundError
         /\ pc' = "raised"
         /\ frames' = calls
    ELSE IF ~IsDir(content_dir, src)
    THEN /\ err' = NotADirectoryError
         /\ pc' = "raised"
         /\ frames' = calls
    ELSE /\ frames' = Append(calls, Frame(src, dst, ListDir(content_dir, src)))
         /\ pc' = "loop"
         /\ UNCHANGED err

Top == frames[Len(frames)]

\* the running calls with item taken off the items of the innermost
Visited(item) ==
    [frames EXCEPT ![Len(frames)].items = @ \ {item}]

\* line 90 for the item of the innermost call
IsMarkdownFile(item) ==
    /\ IsFile(content_dir, Append(Top.dir_path_content, item))
    /\ Suffix(item) = <<".", "m", "d">>

\* main.py lines 41-46: the call for the content directory
GeneratePagesRecursive ==
    /\ pc = "call"
    /\ Enter(<<>>, <<>>, <<>>)
    /\ UNCHANGED <<dest_dir, content_dir, html_title, markdown, blocks,
                   children, html_node, html, markdown_block, block_type,
                   text, text_nodes, call, old_nodes, result>>

\* lines 88-92: an item that is a regular file with the suffix .md
GeneratePage ==
    /\ pc = "loop"
    /\ \E item \in Top.items :
           /\ IsMarkdownFile(item)
           /\ LET src_full_path == Append(Top.dir_path_content, item)
                  dest_full_path ==
                      WithSuffix(Append(Top.dest_dir_path, item),
                                 <<".", "h", "t", "m", "l">>)
                  r == generate_page(dest_dir,
                                     ReadFile(content_dir, src_full_path),
                                     TemplateContent, dest_full_path, BasePath)
              IN  IF r.err # NoErr
                  THEN /\ err' = r.err
                       /\ pc' = "raised"
                       /\ UNCHANGED dest_dir
                  ELSE /\ dest_dir' = r.val
                       /\ UNCHANGED <<err, pc>>
           /\ frames' = Visited(item)
    /\ UNCHANGED <<content_dir, html_title, markdown, blocks, children,
                   html_node, html, markdown_block, block_type, text,
                   text_nodes, call, old_nodes, result>>

\* lines 88-90 and 93-94: any other item is the argument of a recursive call
Recurse ==
    /\ pc = "loop"
    /\ \E item \in Top.items :
           /\ ~IsMarkdownFile(item)
           /\ Enter(Visited(item), Append(Top.dir_path_content, item),
                    Append(Top.dest_dir_path, item))
    /\ UNCHANGED <<dest_dir, content_dir, html_title, markdown, blocks,
                   children, html_node, html, markdown_block, block_type,
                   text, text_nodes, call, old_nodes, result>>

\* the for loop of line 87 has no item left: the innermost call returns
ReturnFromDir ==
    /\ pc = "loop"
    /\ Top.items = {}
    /\ frames' = SubSeq(frames, 1, Len(frames) - 1)
    /\ pc' = IF Len(frames) = 1 THEN "done" ELSE "loop"
    /\ UNCHANGED <<dest_dir, content_dir, html_title, err, markdown, blocks,
                   children, html_node, html, markdown_block, block_type,
                   text, text_nodes, call, old_nodes, result>>

NextPages ==
    GeneratePagesRecursive \/ GeneratePage \/ Recurse \/ ReturnFromDir

SpecPages == InitPages /\ [][NextPages]_vars

(***************************************************************************)
(* block_to_html_node of one block: classification, then assembly          *)
(***************************************************************************)
\* line 137
BlockToBlockType ==
    /\ pc = "classify"
    /\ LET r == block_to_block_type(markdown_block)
       IN  IF r.err # NoErr
           THEN /\ err' = r.err
                /\ pc' = "raised"
                /\ UNCHANGED block_type
           ELSE /\ block_type' = r.val
                /\ pc' = "dispatch"
                /\ UNCHANGED err
    /\ UNCHANGED <<dest_dir, content_dir, frames, html_title, markdown, blocks, children, html_node, html, markdown_block,
                   text, text_nodes, call, old_nodes, result>>

\* lines 138-150
Dispatch ==
    /\ pc = "dispatch"
    /\ LET r == AssembleBlock(markdown_block, block_type)
       IN  IF r.err # NoErr
           THEN /\ err' = r.err
                /\ pc' = "raised"
                /\ UNCHANGED html_node
           ELSE /\ html_node' = r.val
                /\ pc' = "returned"
                /\ UNCHANGED err
    /\ UNCHANGED <<dest_dir, content_dir, frames, html_title, markdown, blocks, children, html, markdown_block,
                   block_type, text, text_nodes, call, old_nodes, result>>

NextClassify == BlockToBlockType \/ Dispatch \/ ToHtml

SpecClassify == InitClassify /\ [][NextClassify]_vars

(***************************************************************************)
(* text_to_text_nodes, one step per pass                                   *)
(***************************************************************************)
\* the call c of a split_nodes_* function with the argument nodes
CallResult(c, nodes) ==
    IF c.fn = "split_nodes_delimiter"
    THEN split_nodes_delimiter(nodes, c.delimiter, c.text_type)
    ELSE IF c.fn = "split_nodes_image" THEN split_nodes_image(nodes)
    ELSE split_nodes_link(nodes)

DelimiterCall(d) ==
    [fn |-> "split_nodes_delimiter", delimiter |-> d.delimiter,
     text_type |-> d.text_type]
ImageCall == [fn |-> "split_nodes_image", delimiter |-> <<>>, text_type |-> IMAGE]
LinkCall == [fn |-> "split_nodes_link", delimiter |-> <<>>, text_type |-> LINK]

\* text_nodes = c(text_nodes) at position cur, then on to position next
Pass(cur, next, c) ==
    /\ pc = cur
    /\ call' = c
    /\ old_nodes' = text_nodes
    /\ LET r == CallResult(c, text_nodes)
       IN  IF r.err # NoErr
           THEN /\ err' = r.err
                /\ pc' = "raised"
                /\ result' = NoneSeq
                /\ UNCHANGED text_nodes
           ELSE /\ result' = r.val
                /\ text_nodes' = r.val
                /\ pc' = next
                /\ UNCHANGED err
    /\ UNCHANGED <<dest_dir, content_dir, frames, html_title, markdown, blocks, children, html_node, html, markdown_block,
                   block_type, text>>

\* lines 151-152
Wrap ==
    /\ pc = "wrap"
    /\ text_nodes' = <<TextNode(text, TEXT, None)>>
    /\ pc' = "bold"
    /\ UNCHANGED <<dest_dir, content_dir, frames, html_title, err, markdown, blocks, children, html_node, html,
                   markdown_block, block_type, text, call, old_nodes,
                   result>>

\* line 153
BoldPass ==
    Pass("bold", "italic",
         DelimiterCall([delimiter |-> <<"*", "*">>, text_type |-> BOLD]))

\* the italic pass typing its sections Bold
ItalicPass_AsBold ==
    Pass("italic", "code",
         DelimiterCall([delimiter |-> <<"_">>, text_type |-> BOLD]))

\* line 154
ItalicPass ==
    Pass("italic", "code",
         DelimiterCall([delimiter |-> <<"_">>, text_type |-> ITALIC]))

\* line 155
CodePass ==
    Pass("code", "image",
         DelimiterCall([delimiter |-> <<Backtick>>, text_type |-> CODE]))

\* line 156
ImagePass == Pass("image", "link", ImageCall)

\* lines 157-158
LinkPass == Pass("link", "returned", LinkCall)

NextInline ==
    Wrap \/ BoldPass \/ ItalicPass \/ CodePass \/ ImagePass \/ LinkPass

SpecInline == InitInline /\ [][NextInline]_vars

(***************************************************************************)
(* One call of a split_nodes_* function                                    *)
(***************************************************************************)
Call(c) ==
    /\ pc = "call"
    /\ call' = c
    /\ LET r == CallResult(c, old_nodes)
       IN  IF r.err # NoErr
           THEN /\ err' = r.err
                /\ pc' = "raised"
                /\ result' = NoneSeq
           ELSE /\ result' = r.val
                /\ pc' = "returned"
                /\ UNCHANGED err
    /\ UNCHANGED <<dest_dir, content_dir, frames, html_title, markdown, blocks, children, html_node, html, markdown_block,
                   block_type, text, text_nodes, old_nodes>>

SplitNodesDelimiter == \E d \in Delimiters : Call(DelimiterCall(d))

SplitNodesImage == Call(ImageCall)

SplitNodesLink == Call(LinkCall)

NextSplit == SplitNodesDelimiter \/ SplitNodesImage \/ SplitNodesLink

SpecSplit == InitSplit /\ [][NextSplit]_vars

(***************************************************************************)
(* htmlnode.py: nodes built bottom-up from the constructors, then to_html  *)
(***************************************************************************)
Attr1 == <<Item(<<"k">>, <<"v">>)>>
Attr2 == <<Item(<<"k">>, <<"v">>), Item(<<"c">>, <<"&", "\"">>)>>
Attr2Swapped == <<Item(<<"c">>, <<"&", "\"">>), Item(<<"k">>, <<"v">>)>>

\* the arguments of LeafNode(tag, value, props)
LeafArgs ==
    {[tag |-> t, value |-> v, props |-> NoneSeq] :
        t \in {None, <<"p">>}, v \in {None, <<>>, <<"v">>}}
    \cup {[tag |-> <<"p">>, value |-> <<"v">>, props |-> a] :
            a \in {<<>>, Attr1, Attr2, Attr2Swapped}}
    \cup {[tag |-> None, value |-> <<"v">>, props |-> Attr1]}

\* the arguments of ParentNode(tag, children, props); kids tells whether
\* children is the list of the nodes built so far or None
ParentArgs ==
    {[tag |-> t, kids |-> k, props |-> NoneSeq] :
        t \in {None, <<"d">>}, k \in BOOLEAN}
    \cup {[tag |-> <<"d">>, kids |-> TRUE, props |-> Attr2]}

\* the arguments of HTMLNode(tag, value, children, props)
HTMLNodeArgs ==
    {[tag |-> None, value |-> None], [tag |-> <<"p">>, value |-> <<"v">>]}

RECURSIVE NodeCount(_)
RECURSIVE NodesCount(_, _)
\* the number of nodes of the trees nodes[k..]
NodesCount(nodes, k) ==
    IF nodes = NoneSeq \/ k > Len(nodes) THEN 0
    ELSE NodeCount(nodes[k]) + NodesCount(nodes, k + 1)

NodeCount(n) == 1 + NodesCount(n.children, 1)

\* to_html(html_node) of a tree built from the constructors
InitNode ==
    /\ Idle
    /\ NoPages
    /\ dest_dir = NoTree
    /\ pc = "build"
    /\ markdown = <<>>
    /\ markdown_block = <<>>
    /\ text = <<>>
    /\ old_nodes = <<>>

Built(node) ==
    /\ pc = "build"
    /\ children' = node
    /\ UNCHANGED <<dest_dir, content_dir, frames, html_title, pc, err, markdown, blocks, html_node, html, markdown_block,
                   block_type, text, text_nodes, call, old_nodes, result>>

\* htmlnode.py lines 52-53: LeafNode(tag, value, props)
NewLeafNode ==
    /\ Len(children) < MaxPool
    /\ NodesCount(children, 1) < MaxNodes
    /\ \E a \in LeafArgs :
          Built(Append(children, LeafNode(a.tag, a.value, a.props)))

\* htmlnode.py lines 84-85: ParentNode(tag, children, props)
NewParentNode ==
    /\ NodesCount(children, 1) < MaxNodes
    /\ \E a \in ParentArgs :
          Built(<<ParentNode(a.tag, IF a.kids THEN children ELSE NoneSeq,
                             a.props)>>)

\* htmlnode.py lines 21-25: HTMLNode(tag, value, children, props)
NewHTMLNode ==
    /\ Len(children) < MaxPool
    /\ NodesCount(children, 1) < MaxNodes
    /\ \E a \in HTMLNodeArgs :
          Built(Append(children, HTMLNode(a.tag, a.value, NoneSeq, NoneSeq)))

\* node.to_html() of one of the nodes built
NodeToHtml ==
    /\ pc = "build"
    /\ \E k \in 1..Len(children) :
          /\ html_node' = children[k]
          /\ LET r == to_html(children[k])
             IN  IF r.err # NoErr
                 THEN /\ err' = r.err
                      /\ pc' = "raised"
                      /\ UNCHANGED html
                 ELSE /\ html' = r.val
                      /\ pc' = "serialized"
                      /\ UNCHANGED err
    /\ UNCHANGED <<dest_dir, content_dir, frames, html_title, markdown, blocks, children, markdown_block, block_type,
                   text, text_nodes, call, old_nodes, result>>

NextNode == NewLeafNode \/ NewParentNode \/ NewHTMLNode \/ NodeToHtml

SpecNode == InitNode /\ [][NextNode]_vars

(***************************************************************************)
(* Notions the properties are stated in                                    *)
(***************************************************************************)
Returned == pc \in {"returned", "serialized", "titled", "written"}

BlockError(k) == block_to_html_node(blocks[k]).err

\* the length of the run of line breaks that starts at position i of s
RECURSIVE NewlineRun(_, _)
NewlineRun(s, i) ==
    IF i <= Len(s) /\ s[i] = "\n" THEN 1 + NewlineRun(s, i + 1) ELSE 0

\* s cut at every maximal run of two or more line breaks
RECURSIVE RunPieces(_, _, _)
RunPieces(s, i, cur) ==
    IF i > Len(s) THEN <<cur>>
    ELSE IF NewlineRun(s, i) >= 2
         THEN <<cur>> \o RunPieces(s, i + NewlineRun(s, i), <<>>)
         ELSE RunPieces(s, i + 1, Append(cur, s[i]))

RECURSIVE TrimLeft(_)
TrimLeft(s) == IF s # <<>> /\ IsSpace(s[1]) THEN TrimLeft(Tail(s)) ELSE s

RECURSIVE TrimRight(_)
TrimRight(s) ==
    IF s # <<>> /\ IsSpace(s[Len(s)]) THEN TrimRight(SubSeq(s, 1, Len(s) - 1))
    ELSE s

TrimmedPieces(s) ==
    LET pieces == RunPieces(s, 1, <<>>)
    IN  SelectSeq([k \in 1..Len(pieces) |-> TrimLeft(TrimRight(pieces[k]))],
                  LAMBDA x : Len(x) > 0)

DocHeadingList ==
    <<"#", " ", "T", "\n", "\n", "-", " ", "x", "\n", "-", " ", "y">>

HtmlHeadingList ==
    <<"<", "d", "i", "v", ">", "<", "h", "1", ">", "T", "<", "/", "h", "1", ">",
      "<", "u", "l", ">", "<", "l", "i", ">", "x", "<", "/", "l", "i", ">",
      "<", "l", "i", ">", "y", "<", "/", "l", "i", ">", "<", "/", "u", "l", ">",
      "<", "/", "d", "i", "v", ">">>

HtmlEmptyDiv == <<"<", "d", "i", "v", ">", "<", "/", "d", "i", "v", ">">>

DocExcessNewlines == <<"a", "\n", "\n", "b", "\n", "\n", "\n", "\n", "c">>

\* C1: when no block of the document fails, markdown_to_html_node returns a
\* ParentNode "div" whose k-th child is block_to_html_node of the k-th block
\* of markdown_to_blocks; a document without blocks serializes to
\* <div></div>, and "# T\n\n- x\n- y" to the div of an h1 and a two-item ul.
C1_DivOfBlocksInOrder ==
    /\ pc = "raised" /\ html = None =>
          \E k \in 1..Len(markdown_to_blocks(markdown)) : BlockError(k) # NoErr
    /\ Returned =>
          /\ html_node.cls = "ParentNode"
          /\ html_node.tag = <<"d", "i", "v">>
          /\ Len(html_node.children) = Len(markdown_to_blocks(markdown))
          /\ \A k \in 1..Len(html_node.children) :
                html_node.children[k]
                    = block_to_html_node(markdown_to_blocks(markdown)[k]).val
    /\ pc = "serialized" /\ markdown_to_blocks(markdown) = <<>> =>
          html_node.children = <<>> /\ html = HtmlEmptyDiv
    /\ pc = "serialized" /\ markdown = DocHeadingList => html = HtmlHeadingList

C1_Witness ==
    /\ pc = "serialized"
    /\ markdown = DocHeadingList
    /\ Len(html_node.children) = 2
    /\ html_node.children[1].tag = <<"h", "1">>
    /\ html_node.children[2].tag = <<"u", "l">>

\* C2: markdown_to_blocks returns, in source order, the pieces of the
\* document cut at every maximal run of two or more line breaks, trimmed,
\* the empty ones dropped: no block is empty, starts or ends with
\* whitespace, or holds two consecutive line breaks.
C2_BlocksAreTrimmedRunPieces ==
    pc # "start" =>
        /\ blocks = TrimmedPieces(markdown)
        /\ \A k \in 1..Len(blocks) :
              /\ blocks[k] # <<>>
              /\ ~IsSpace(blocks[k][1])
              /\ ~IsSpace(blocks[k][Len(blocks[k])])
              /\ \A i \in 1..(Len(blocks[k]) - 1) :
                    ~(blocks[k][i] = "\n" /\ blocks[k][i + 1] = "\n")
        /\ markdown = DocExcessNewlines => blocks = <<<<"a">>, <<"b">>, <<"c">>>>

C2_Witness ==
    /\ pc # "start"
    /\ markdown = DocExcessNewlines
    /\ Len(blocks) = 3

BlockTypes ==
    {PARAGRAPH, HEADING, CODE_BLOCK, QUOTE, UNORDERED_LIST, ORDERED_LIST}

Classified == pc \in {"dispatch", "returned", "serialized"}

\* C3: block_to_block_type is total: for every block string, the empty
\* and the whitespace-only ones included, it returns one BlockType and does
\* not raise.
C3_ClassifierTotal ==
    pc # "classify" =>
        /\ err # IndexError
        /\ block_to_block_type(markdown_block).err = NoErr
        /\ block_to_block_type(markdown_block).val \in BlockTypes

\* the block opens with a fence and closes with a further fence
OpensAndClosesFence(b) ==
    StartsWith(b, Fence) /\ EndsWith(b, Fence) /\ Len(b) >= 2 * Len(Fence)

\* b is a block as markdown_to_blocks produces them
IsSegmentedBlock(b) == markdown_to_blocks(b) = <<b>>

\* C4: a block whose first character is a backquote is classified CodeFence
\* if and only if it starts with a fence and ends with a fence, so every
\* block classified CodeFence meets the precondition of code_to_html_node
\* and block_to_html_node does not raise InvalidCodeBlock (stated for the
\* blocks markdown_to_blocks produces).
C4_CodeFenceIffFenced ==
    IsSegmentedBlock(markdown_block) =>
        /\ Classified /\ markdown_block[1] = Backtick =>
              (block_type = CODE_BLOCK <=> OpensAndClosesFence(markdown_block))
        /\ Classified /\ block_type = CODE_BLOCK =>
              /\ StartsWith(markdown_block, Fence)
              /\ EndsWith(markdown_block, Fence)
        /\ err # InvalidCodeBlock

\* the number of occurrences of d in s, counted left to right without
\* overlap
RECURSIVE OccurrencesFrom(_, _, _)
OccurrencesFrom(s, d, i) ==
    IF i > Len(s) THEN 0
    ELSE IF IsAt(s, d, i) THEN 1 + OccurrencesFrom(s, d, i + Len(d))
    ELSE OccurrencesFrom(s, d, i + 1)

Occurrences(s, d) == OccurrencesFrom(s, d, 1)

\* each of the three delimiters occurs an even number of times
Balanced(t) == \A d \in Delimiters : Occurrences(t, d.delimiter) % 2 = 0

\* a span with its syntax markers put back
Markup(n) ==
    IF n.text_type = BOLD THEN <<"*", "*">> \o n.text \o <<"*", "*">>
    ELSE IF n.text_type = ITALIC THEN <<"_">> \o n.text \o <<"_">>
    ELSE IF n.text_type = CODE THEN <<Backtick>> \o n.text \o <<Backtick>>
    ELSE IF n.text_type = IMAGE
         THEN <<"!", "[">> \o n.text \o <<"]", "(">> \o n.url \o <<")">>
    ELSE IF n.text_type = LINK
         THEN <<"[">> \o n.text \o <<"]", "(">> \o n.url \o <<")">>
    ELSE n.text

Reconstruct(nodes) == Flatten([k \in 1..Len(nodes) |-> Markup(nodes[k])])

\* the parts of s between the occurrences of d
PartsOf(s, d) == PySplit(s, d)

\* a Plain span of nodes holds an empty section between two delimiters d
EmptySectionIn(nodes, d) ==
    \E k \in 1..Len(nodes) :
        /\ nodes[k].text_type = TEXT
        /\ \E i \in 1..Len(PartsOf(nodes[k].text, d)) :
              i % 2 = 0 /\ PartsOf(nodes[k].text, d)[i] = <<>>

AfterBold(t) ==
    split_nodes_delimiter(<<TextNode(t, TEXT, None)>>, <<"*", "*">>, BOLD).val

AfterItalic(t) == split_nodes_delimiter(AfterBold(t), <<"_">>, ITALIC).val

\* one of the delimiter passes over t meets an empty delimited section
HasEmptySection(t) ==
    \/ EmptySectionIn(<<TextNode(t, TEXT, None)>>, <<"*", "*">>)
    \/ EmptySectionIn(AfterBold(t), <<"_">>)
    \/ EmptySectionIn(AfterItalic(t), <<Backtick>>)

\* C5 as stated: for a text with balanced delimiters, whenever
\* text_to_text_nodes returns, the spans with their markers put back
\* concatenate to the text, empty delimited sections included.
C5_RoundTrip ==
    pc = "returned" /\ Balanced(text) => Reconstruct(text_nodes) = text

\* C5: for a text with balanced delimiters, whenever text_to_text_nodes
\* returns, the spans with their markers put back concatenate to the text
\* exactly when no delimiter pass met an empty delimited section; such a
\* section is dropped with its markers.
C5_RoundTripUnlessEmptySection ==
    pc = "returned" /\ Balanced(text) =>
        (Reconstruct(text_nodes) = text <=> ~HasEmptySection(text))

C5_Witness ==
    /\ pc = "returned"
    /\ Balanced(text)
    /\ ~HasEmptySection(text)
    /\ Len(text_nodes) >= 2
    /\ \E k \in 1..Len(text_nodes) : text_nodes[k].text_type = BOLD
    /\ \E k \in 1..Len(text_nodes) : text_nodes[k].text_type = LINK
    /\ Reconstruct(text_nodes) = text

\* C6: for a text in which each of the three delimiters is balanced,
\* text_to_text_nodes does not raise UnterminatedDelimiter, also when a
\* construct of one kind holds a delimiter of another kind.
C6_BalancedNeverUnterminated ==
    Balanced(text) => err # UnterminatedDelimiter

DelimiterCalled == call.fn = "split_nodes_delimiter" /\ pc # "call"

\* C7: split_nodes_delimiter raises UnterminatedDelimiter if and only if a
\* Plain input span holds an odd number of occurrences of the delimiter;
\* occurrences in other spans never make it fail; when it raises, no list
\* is returned.
C7_RaisesIffOddInPlain ==
    DelimiterCalled =>
        /\ (err = UnterminatedDelimiter) <=>
              \E k \in 1..Len(old_nodes) :
                  /\ old_nodes[k].text_type = TEXT
                  /\ Occurrences(old_nodes[k].text, call.delimiter) % 2 = 1
        /\ err \in {NoErr, UnterminatedDelimiter}
        /\ (pc = "raised") <=> (err # NoErr)
        /\ (pc = "raised") <=> (result = NoneSeq)

C7_Witness ==
    /\ DelimiterCalled
    /\ pc = "raised"
    /\ Len(old_nodes) = 2
    /\ old_nodes[1].text_type = BOLD
    /\ Occurrences(old_nodes[1].text, call.delimiter) = 1
    /\ old_nodes[2].text_type = TEXT

\* the typed, non-empty parts of a Plain text: even 0-based index Plain,
\* odd index the kind of the call
TypedParts(s, d, kind) ==
    SelectSeq([i \in 1..Len(PartsOf(s, d)) |->
                  TextNode(PartsOf(s, d)[i],
                           IF (i - 1) % 2 = 0 THEN TEXT ELSE kind, None)],
              LAMBDA n : n.text # <<>>)

\* C8: when split_nodes_delimiter succeeds, each Plain input span is
\* replaced, in place and in order, by its typed non-empty parts; other
\* spans stay; no span the pass produces is empty, and a Plain span made of
\* adjacent delimiters only yields no span.
C8_PlainReplacedByTypedParts ==
    DelimiterCalled /\ pc = "returned" =>
        /\ result =
              Flatten([k \in 1..Len(old_nodes) |->
                  IF old_nodes[k].text_type # TEXT THEN <<old_nodes[k]>>
                  ELSE TypedParts(old_nodes[k].text, call.delimiter,
                                  call.text_type)])
        /\ (\A k \in 1..Len(old_nodes) : old_nodes[k].text_type = TEXT) =>
              \A k \in 1..Len(result) : result[k].text # <<>>
        /\ (\A k \in 1..Len(old_nodes) :
                /\ old_nodes[k].text_type = TEXT
                /\ Len(old_nodes[k].text)
                     = Len(call.delimiter)
                         * Occurrences(old_nodes[k].text, call.delimiter)) =>
              result = <<>>

C8_Witness ==
    /\ DelimiterCalled
    /\ pc = "returned"
    /\ Len(old_nodes) = 2
    /\ old_nodes[1].text_type = BOLD
    /\ old_nodes[2].text_type = TEXT
    /\ <<>> \in {PartsOf(old_nodes[2].text, call.delimiter)[i] :
                    i \in 1..Len(PartsOf(old_nodes[2].text, call.delimiter))}
    /\ result = <<old_nodes[1],
                  TextNode(<<"a">>, call.text_type, None)>>

ExtractionCalled ==
    call.fn \in {"split_nodes_image", "split_nodes_link"} /\ pc # "call"

\* the pattern matches of s from position i on, left to right, the scan
\* resuming behind each match
RECURSIVE MatchesFrom(_, _, _)
MatchesFrom(s, i, fn) ==
    IF i > Len(s) THEN <<>>
    ELSE LET m == IF fn = "split_nodes_image" THEN MatchImage(s, i)
                  ELSE MatchLink(s, i)
         IN  IF m.ok
             THEN <<[start |-> i, end |-> m.end, alt |-> m.alt, url |-> m.url]>>
                  \o MatchesFrom(s, m.end + 1, fn)
             ELSE MatchesFrom(s, i + 1, fn)

\* for the matches ms[k..] of s, the text from pos up to the match as a
\* Plain span if not empty, then the typed span; at the end the trailing
\* text as a Plain span if not empty
RECURSIVE EmitFrom(_, _, _, _, _)
EmitFrom(s, ms, k, pos, kind) ==
    IF k > Len(ms)
    THEN IF pos <= Len(s)
         THEN <<TextNode(SubSeq(s, pos, Len(s)), TEXT, None)>>
         ELSE <<>>
    ELSE (IF ms[k].start > pos
          THEN <<TextNode(SubSeq(s, pos, ms[k].start - 1), TEXT, None)>>
          ELSE <<>>)
         \o <<TextNode(ms[k].alt, kind, ms[k].url)>>
         \o EmitFrom(s, ms, k + 1, ms[k].end + 1, kind)

ExpectedExtraction(nodes, c) ==
    Flatten([k \in 1..Len(nodes) |->
        IF nodes[k].text_type # TEXT THEN <<nodes[k]>>
        ELSE IF MatchesFrom(nodes[k].text, 1, c.fn) = <<>> THEN <<nodes[k]>>
        ELSE EmitFrom(nodes[k].text, MatchesFrom(nodes[k].text, 1, c.fn), 1, 1,
                      c.text_type)])

\* C9: split_nodes_image and split_nodes_link never raise, and for each
\* Plain span they emit, for every pattern match in left-to-right order,
\* the preceding text as a Plain span if not empty, the typed span with the
\* captured text and url, and at the end the trailing text as a Plain span
\* if not empty; a Plain span without a match and every other span is
\* emitted unmodified.
C9_ExtractionTotalAndOrdered ==
    ExtractionCalled =>
        /\ err = NoErr
        /\ pc = "returned"
        /\ result = ExpectedExtraction(old_nodes, call)

LinkCalledOnPlain ==
    /\ call.fn = "split_nodes_link"
    /\ pc = "returned"
    /\ Len(old_nodes) = 1
    /\ old_nodes[1].text_type = TEXT

\* the position in the input at which the k-th output span starts, the
\* spans before it taken with their markers
OffsetOf(k) == 1 + Len(Reconstruct(SubSeq(result, 1, k - 1)))

HeadingShape(b) ==
    \E n \in 1..6 : \E q \in (n + 1)..(Len(b) - 1) :
        /\ \A k \in 1..n : b[k] = "#"
        /\ \A k \in (n + 1)..q : IsSpace(b[k])

\* C11: a block, of one line or of more, that starts with "#" is Heading if
\* and only if it is 1 to 6 "#", then whitespace, then a content that is
\* not empty, and Paragraph otherwise; a block that starts with a backquote
\* and does not match the code fence pattern is Paragraph; neither is
\* tested against the line patterns.
C11_HeadingIffShape ==
    Classified /\ IsSegmentedBlock(markdown_block) =>
        /\ markdown_block[1] = "#" =>
              /\ block_type = HEADING <=> HeadingShape(markdown_block)
              /\ block_type \in {HEADING, PARAGRAPH}
        /\ markdown_block[1] = Backtick =>
              /\ block_type = CODE_BLOCK <=> CodeMatch(markdown_block)
              /\ block_type \in {CODE_BLOCK, PARAGRAPH}

\* the lines of b that are not blank
LinesNotBlank(b) ==
    SelectSeq(SplitLines(b), LAMBDA line : \E k \in 1..Len(line) : ~IsSpace(line[k]))

LineClassified ==
    /\ Classified
    /\ IsSegmentedBlock(markdown_block)
    /\ markdown_block[1] \notin {"#", Backtick}

EveryLineQuote(b) ==
    \A i \in 1..Len(LinesNotBlank(b)) : StartsWith(LinesNotBlank(b)[i], <<">">>)

EveryLineDash(b) ==
    \A i \in 1..Len(LinesNotBlank(b)) :
        StartsWith(LinesNotBlank(b)[i], <<"-", " ">>)

EveryLineNumbered(b) ==
    \A i \in 1..Len(LinesNotBlank(b)) :
        StartsWith(LinesNotBlank(b)[i], IntStr(i) \o <<".", " ">>)

\* C12: a block that starts with neither "#" nor a backquote and is not
\* Quote is UnorderedList if and only if every line of it that is not
\* blank starts with dash, space; blank lines are ignored.
C12_UnorderedIffEveryLineDash ==
    LineClassified /\ block_type # QUOTE =>
        (block_type = UNORDERED_LIST <=> EveryLineDash(markdown_block))

\* C13: a block that starts with neither "#" nor a backquote and is
\* neither Quote nor UnorderedList is OrderedList if and only if, for
\* every i, its i-th line that is not blank starts with the number i, a
\* dot and a space.
C13_OrderedIffNumberedFromOne ==
    LineClassified /\ block_type \notin {QUOTE, UNORDERED_LIST} =>
        (block_type = ORDERED_LIST <=> EveryLineNumbered(markdown_block))

ToHtmlCalled == pc \in {"serialized", "raised"}

\* for each pair of the mapping in its order: a space, the key, ="value"
Attributes(props) ==
    IF props = NoneSeq THEN <<>>
    ELSE Flatten([k \in 1..Len(props) |->
             <<" ">> \o props[k].key \o <<"=", "\"">> \o props[k].value
                 \o <<"\"">>])

Element(tag, props, body) ==
    <<"<">> \o tag \o Attributes(props) \o <<">">> \o body
        \o <<"<", "/">> \o tag \o <<">">>

\* C15: LeafNode.to_html raises MissingValue when value is None, whatever
\* the tag; else returns value as it is when tag is None; else returns the
\* element of tag, attributes and value; the empty value is not missing.
C15_LeafToHtml ==
    ToHtmlCalled /\ html_node.cls = "LeafNode" =>
        IF html_node.value = None
        THEN pc = "raised" /\ err = MissingValue /\ html = None
        ELSE /\ pc = "serialized"
             /\ err = NoErr
             /\ html = IF html_node.tag = None THEN html_node.value
                       ELSE Element(html_node.tag, html_node.props,
                                    html_node.value)

C15_Witness ==
    /\ pc = "serialized"
    /\ html_node.cls = "LeafNode"
    /\ html_node.tag # None
    /\ html_node.value = <<>>
    /\ html = <<"<", "p", ">", "<", "/", "p", ">">>

\* the node and the nodes below it are LeafNode or ParentNode
RECURSIVE IsTree(_)
IsTree(n) ==
    /\ n.cls \in {"LeafNode", "ParentNode"}
    /\ n.children # NoneSeq =>
          \A k \in 1..Len(n.children) : IsTree(n.children[k])

\* a Leaf without value or a Parent without tag or without children is
\* reachable from n
RECURSIVE HasInvalid(_)
HasInvalid(n) ==
    \/ n.cls = "LeafNode" /\ n.value = None
    \/ n.cls = "ParentNode" /\ (n.tag = None \/ n.children = NoneSeq)
    \/ /\ n.children # NoneSeq
       /\ \E k \in 1..Len(n.children) : HasInvalid(n.children[k])

\* the markup of a tree without an invalid node
RECURSIVE Markup_(_)
Markup_(n) ==
    IF n.cls = "LeafNode"
    THEN IF n.tag = None THEN n.value ELSE Element(n.tag, n.props, n.value)
    ELSE Element(n.tag, n.props,
                 Flatten([k \in 1..Len(n.children) |-> Markup_(n.children[k])]))

RECURSIVE Depth(_)
Depth(n) ==
    IF n.children = NoneSeq \/ n.children = <<>> THEN 1
    ELSE 1 + Max(Depth(n.children[1]),
                 IF Len(n.children) > 1 THEN Depth(n.children[2]) ELSE 0)

\* C16: ParentNode.to_html raises MissingTag when tag is None, checked
\* first; raises MissingChildren when children is None; otherwise returns
\* the element of tag, attributes and the serializations of the children
\* in their order; empty children give an empty element at any depth.
C16_ParentToHtml ==
    ToHtmlCalled /\ html_node.cls = "ParentNode" =>
        IF html_node.tag = None
        THEN pc = "raised" /\ err = MissingTag
        ELSE IF html_node.children = NoneSeq
        THEN pc = "raised" /\ err = MissingChildren
        ELSE /\ IsTree(html_node) /\ ~HasInvalid(html_node) =>
                  /\ pc = "serialized"
                  /\ html = Markup_(html_node)
             /\ html_node.children = <<>> =>
                  /\ pc = "serialized"
                  /\ html = Element(html_node.tag, html_node.props, <<>>)

C16_Witness ==
    /\ pc = "serialized"
    /\ html_node.cls = "ParentNode"
    /\ Len(html_node.children) = 2
    /\ html_node.children[1].cls = "ParentNode"
    /\ html_node.children[1].children = <<>>
    /\ html_node.children[2].cls = "LeafNode"
    /\ html_node.props = NoneSeq
    /\ html = <<"<", "d", ">", "<", "d", ">", "<", "/", "d", ">">>
                \o html_node.children[2].value \o <<"<", "/", "d", ">">>

\* C17: the constructors never fail; to_html on the root of a tree of
\* LeafNode and ParentNode raises, and returns no string, if and only if a
\* node reachable from the root is invalid.
C17_LazyValidity ==
    /\ pc = "build" => err = NoErr /\ html = None
    /\ ToHtmlCalled /\ IsTree(html_node) =>
          /\ pc = "raised" <=> HasInvalid(html_node)
          /\ pc = "raised" =>
                /\ html = None
                /\ err \in {MissingValue, MissingTag, MissingChildren}
          /\ pc = "serialized" => err = NoErr /\ html # None

C17_Witness ==
    /\ pc = "raised"
    /\ IsTree(html_node)
    /\ html_node.cls = "ParentNode"
    /\ html_node.tag # None
    /\ Len(html_node.children) = 2
    /\ ~HasInvalid(html_node.children[2])
    /\ html_node.children[1].cls = "ParentNode"
    /\ html_node.children[1].tag # None
    /\ html_node.children[1].children # NoneSeq
    /\ Len(html_node.children[1].children) = 1
    /\ html_node.children[1].children[1].value = None
    /\ err = MissingValue

\* C18: props_to_html gives, for each pair of the mapping in insertion
\* order, a space and key="value" with the value unescaped; a mapping that
\* is None or empty gives the empty string, so a node without attributes
\* opens with its bare tag.
C18_PropsInInsertionOrder ==
    pc = "serialized" /\ html_node.tag # None =>
        /\ props_to_html(html_node) = Attributes(html_node.props)
        /\ html_node.props \in {NoneSeq, <<>>} =>
              /\ props_to_html(html_node) = <<>>
              /\ StartsWith(html, <<"<">> \o html_node.tag \o <<">">>)
        /\ StartsWith(html, <<"<">> \o html_node.tag
                                \o Attributes(html_node.props) \o <<">">>)

C18_Witness ==
    /\ pc = "serialized"
    /\ html_node.props = Attr2Swapped
    /\ StartsWith(html, <<"<", "p", " ", "c", "=", "\"", "&", "\"", "\"", " ",
                          "k", "=", "\"", "v", "\"", ">">>)

\* extract_title has returned or raised: line 56 of util.py has passed
TitleCalled ==
    \/ pc \in {"titled", "written"}
    \/ pc = "raised" /\ html # None /\ html_title = None

\* C19: extract_title looks at the first block of markdown_to_blocks only:
\* when it starts with "# " the rest of that block is returned, whatever
\* the later blocks are; when it does not, MissingH1Header is raised; for a
\* document without blocks it fails and returns no title.
C19_TitleFromFirstBlock ==
    TitleCalled =>
        IF markdown_to_blocks(markdown) = <<>>
        THEN pc = "raised" /\ err # NoErr /\ html_title = None
        ELSE IF StartsWith(markdown_to_blocks(markdown)[1], <<"#", " ">>)
        THEN /\ pc \in {"titled", "written"}
             /\ err = NoErr
             /\ html_title = SubSeq(markdown_to_blocks(markdown)[1], 3,
                                    Len(markdown_to_blocks(markdown)[1]))
        ELSE pc = "raised" /\ err = MissingH1Header /\ html_title = None

C19_Witness ==
    /\ pc = "titled"
    /\ Len(blocks) = 2
    /\ StartsWith(blocks[2], <<"#", " ">>)
    /\ html_title = <<"T">>

\* b is a fence, a line break, a body and a fence, without a blank line
IsFencedBlock(b) ==
    /\ Len(b) >= 7
    /\ StartsWith(b, Fence \o <<"\n">>)
    /\ EndsWith(b, Fence)
    /\ \A k \in 1..(Len(b) - 1) : ~(b[k] = "\n" /\ b[k + 1] = "\n")

FenceBody(b) == SubSeq(b, 5, Len(b) - 3)

\* C20: for a block that is a fence, a line break, a body without a blank
\* line and a fence, block_to_html_node returns pre holding code holding
\* one untagged leaf whose value is the body character for character, also
\* when the body holds unbalanced delimiters or link and image syntax; the
\* block serializes to the body between the pre and code tags.
C20_CodeBodyVerbatim ==
    pc # "classify" /\ IsFencedBlock(markdown_block) =>
        /\ pc # "raised"
        /\ err = NoErr
        /\ block_type = CODE_BLOCK
        /\ pc \in {"returned", "serialized"} =>
              html_node =
                  ParentNode(<<"p", "r", "e">>,
                      <<ParentNode(<<"c", "o", "d", "e">>,
                            <<LeafNode(None, FenceBody(markdown_block), NoneSeq)>>,
                            NoneSeq)>>,
                      NoneSeq)
        /\ pc = "serialized" =>
              html = <<"<", "p", "r", "e", ">", "<", "c", "o", "d", "e", ">">>
                        \o FenceBody(markdown_block)
                        \o <<"<", "/", "c", "o", "d", "e", ">",
                             "<", "/", "p", "r", "e", ">">>

C20_Witness ==
    /\ pc = "serialized"
    /\ IsFencedBlock(markdown_block)
    /\ FenceBody(markdown_block) = <<"*", "*", "_", "[", "a", "]", "(", "u", ")">>

(***************************************************************************)
(* C21: list assembly strips a fixed-width marker                          *)
(***************************************************************************)
ListCalled == block_type \in {UNORDERED_LIST, ORDERED_LIST}

ListTag == IF block_type = UNORDERED_LIST THEN <<"u", "l">> ELSE <<"o", "l">>

MarkerWidth == IF block_type = UNORDERED_LIST THEN 2 ELSE 3

\* the line without its first n characters
DropFirst(line, n) == SubSeq(line, Min(n, Len(line)) + 1, Len(line))

\* the inline split of line k of the block, its marker width dropped
ItemSplit(k) ==
    text_to_children(DropFirst(PySplit(markdown_block, <<"\n">>)[k],
                               MarkerWidth))

\* the text of an ordered item behind its numeral, the dot and the space
AfterMarker(line) == DropFirst(line, LeadingDigits(line) + 2)

ItemLines == 1..Len(PySplit(markdown_block, <<"\n">>))

\* C21: for a block classified UnorderedList (OrderedList), the assembler
\* returns a "ul" ("ol") Parent with one "li" per line of the block, in line
\* order, whose children are the inline split of that line with exactly its
\* first 2 (3) characters removed; it raises only when the inline split of
\* some line raises; the tenth ordered item keeps the ". " of its marker.
C21_ListStripsFixedWidth ==
    /\ pc \in {"returned", "serialized"} /\ ListCalled =>
           /\ html_node.cls = "ParentNode"
           /\ html_node.tag = ListTag
           /\ html_node.props = NoneSeq
           /\ Len(html_node.children) = Len(PySplit(markdown_block, <<"\n">>))
           /\ \A k \in ItemLines :
                  /\ ItemSplit(k).err = NoErr
                  /\ html_node.children[k] =
                         ParentNode(<<"l", "i">>, ItemSplit(k).val, NoneSeq)
    /\ pc = "raised" /\ ListCalled =>
           \E k \in ItemLines :
               /\ ItemSplit(k).err = err
               /\ \A j \in 1..(k - 1) : ItemSplit(j).err = NoErr
    /\ pc \in {"returned", "serialized"} /\ block_type = ORDERED_LIST =>
           \A k \in ItemLines :
               LET line == PySplit(markdown_block, <<"\n">>)[k]
               IN  /\ LeadingDigits(line) = 1 =>
                          DropFirst(line, 3) = AfterMarker(line)
                   /\ LeadingDigits(line) > 1 =>
                          DropFirst(line, 3) # AfterMarker(line)

\* the tenth item of an ordered list of ten: three characters of "10. a"
\* are removed, and the li holds " a"
C21_Witness ==
    /\ pc = "serialized"
    /\ block_type = ORDERED_LIST
    /\ html_node.children # NoneSeq
    /\ Len(html_node.children) = 10
    /\ html_node.children[10] =
           ParentNode(<<"l", "i">>, <<LeafNode(None, <<" ", "a">>, NoneSeq)>>,
                      NoneSeq)
    /\ html_node.children[9] =
           ParentNode(<<"l", "i">>, <<LeafNode(None, <<"a">>, NoneSeq)>>,
                      NoneSeq)

(***************************************************************************)
(* C22: the heading of a block classified Heading                          *)
(***************************************************************************)
HeadingCalled == block_type = HEADING

\* the number of '#' the block begins with
HashCount == LeadingHashes(markdown_block)

\* the inline split of the block without its '#' and the character after
HeadingSplit == text_to_children(DropFirst(markdown_block, HashCount + 1))

\* C22: for a block classified Heading, heading_to_html_node never raises
\* InvalidHeading; the number of leading '#' is between 1 and 6, and when
\* the inline split of the block without these and the next character
\* succeeds, the result is the Parent "h<level>" of that split.
C22_HeadingOfClassified ==
    /\ HeadingCalled =>
           /\ err # InvalidHeading
           /\ HashCount \in 1..6
    /\ pc \in {"returned", "serialized"} /\ HeadingCalled =>
           /\ HeadingSplit.err = NoErr
           /\ html_node =
                  ParentNode(<<"h">> \o IntStr(HashCount), HeadingSplit.val,
                             NoneSeq)
    /\ pc = "raised" /\ HeadingCalled => err = HeadingSplit.err

\* "###### a" gives the h6 of "a"
C22_Witness ==
    /\ pc = "serialized"
    /\ block_type = HEADING
    /\ markdown_block = <<"#", "#", "#", "#", "#", "#", " ", "a">>
    /\ html_node.tag = <<"h", "6">>
    /\ html = <<"<", "h", "6", ">", "a", "<", "/", "h", "6", ">">>

(***************************************************************************)
(* C23: the passes of text_to_text_nodes leave typed spans alone           *)
(***************************************************************************)
\* a pass of the pipeline has returned its list
PassReturned == call.fn # "none" /\ result # NoneSeq

\* res[j..] is old[k..] with every span that is not Plain kept as it is and
\* in its place, and every Plain span replaced by some run of spans that are
\* Plain or of the type the pass gives
RECURSIVE PassesThrough(_, _, _, _)
PassesThrough(old, k, res, j) ==
    IF k > Len(old) THEN j > Len(res)
    ELSE IF old[k].text_type # TEXT
         THEN /\ j <= Len(res)
              /\ res[j] = old[k]
              /\ PassesThrough(old, k + 1, res, j + 1)
    ELSE \E n \in j..(Len(res) + 1) :
             /\ \A i \in j..(n - 1) :
                    res[i].text_type \in {TEXT, call.text_type}
             /\ PassesThrough(old, k + 1, res, n)

Typed(nodes) == SelectSeq(nodes, LAMBDA n : n.text_type # TEXT)

\* C23: in the pipeline bold, italic, code, image, link, a span that is not
\* Plain when a pass starts is in the list the pass returns, unchanged and
\* in the same order among the typed spans; the spans a pass adds are of
\* its own type and stand where a Plain span stood.
C23_TypedSpansPassThrough ==
    PassReturned =>
        /\ PassesThrough(old_nodes, 1, result, 1)
        /\ \A k \in 1..Len(old_nodes) :
               old_nodes[k].text_type # call.text_type
        /\ SelectSeq(result, LAMBDA n : n.text_type # call.text_type
                                        /\ n.text_type # TEXT)
              = Typed(old_nodes)
        /\ text_nodes = result

\* the link pass meets a Bold span holding link markup and a Plain span
\* holding the same markup: it keeps the first and types the second
C23_Witness ==
    /\ PassReturned
    /\ call = LinkCall
    /\ pc = "returned"
    /\ Len(old_nodes) = 2
    /\ old_nodes[1] =
           TextNode(<<"[", "a", "]", "(", "u", ")">>, BOLD, None)
    /\ old_nodes[2].text_type = TEXT
    /\ result = <<old_nodes[1], TextNode(<<"a">>, LINK, <<"u">>)>>

(***************************************************************************)
(* C24: a core error leaves the destination as it was                      *)
(***************************************************************************)
\* some block of the document cannot be assembled
SomeBlockFails ==
    \E k \in 1..Len(blocks) : BlockError(k) # NoErr

\* C24: in generate_page the destination is created or modified only by a
\* step that starts with the page rendered, its title extracted and no
\* error raised; once an error is raised nothing more happens; a document
\* with a block that cannot be assembled never gets a tree, a rendering or
\* a title, and its destination stays as it was.
C24_NoPartialOutput ==
    /\ [](SomeBlockFails =>
             /\ pc \in {"loop", "raised"}
             /\ html_node = NoNode
             /\ html = None
             /\ html_title = None)
    /\ [](pc = "raised" => err # NoErr)
    /\ [][/\ dest_dir' # dest_dir =>
                /\ html # None
                /\ html_title # None
                /\ err = NoErr
                /\ err' = NoErr
          /\ err' # NoErr => dest_dir' = dest_dir
          /\ pc = "raised" => pc' = "raised"]_vars

\* the page is rendered, the title is missing: the older page at dest_path
\* is still there
C24_Witness ==
    /\ pc = "raised"
    /\ err = MissingH1Header
    /\ html # None
    /\ dest_dir = {Dir(<<>>), File(DestPath, <<"o", "l", "d">>)}

(***************************************************************************)
(* C25: the Quote check of quote_to_html_node                              *)
(***************************************************************************)
\* the assembler of a segmented block classified Quote has run
QuoteCalled ==
    /\ IsSegmentedBlock(markdown_block)
    /\ block_type = QUOTE
    /\ pc \in {"returned", "serialized", "raised"}

\* the lines of the block, each without its leading '>' and the whitespace
\* around the rest
QuoteContent ==
    Join(<<" ">>,
         [k \in 1..Len(PySplit(markdown_block, <<"\n">>)) |->
             Strip(LStrip(PySplit(markdown_block, <<"\n">>)[k], ">"))])

\* C25: for every block markdown_to_blocks produces that is classified
\* Quote, every line of block.split("\n") starts with '>',
\* block_to_html_node never raises InvalidQuoteBlock, and when it returns
\* the result is the "blockquote" of the inline split of the stripped lines
\* joined by single spaces.
C25_QuoteCheckDefensive ==
    QuoteCalled =>
        /\ \A k \in 1..Len(PySplit(markdown_block, <<"\n">>)) :
               StartsWith(PySplit(markdown_block, <<"\n">>)[k], <<">">>)
        /\ err # InvalidQuoteBlock
        /\ pc # "raised" =>
               html_node =
                   ParentNode(<<"b", "l", "o", "c", "k", "q", "u", "o", "t",
                                "e">>,
                              text_to_children(QuoteContent).val, NoneSeq)

(***************************************************************************)
(* C26: the items the classifier saw and the items the assembler built     *)
(***************************************************************************)
\* the assembler of a segmented block classified as a list has returned
ListReturned ==
    /\ IsSegmentedBlock(markdown_block)
    /\ ListCalled
    /\ pc \in {"returned", "serialized"}

\* C26: for every block markdown_to_blocks produces that is classified
\* UnorderedList or OrderedList, the ul/ol has as many "li" children as the
\* block has non-blank lines, and no li has an empty child sequence.
C26_ItemsAgree ==
    ListReturned =>
        /\ Len(html_node.children) = Len(NonBlankLines(markdown_block))
        /\ \A k \in 1..Len(html_node.children) :
               html_node.children[k].children # <<>>

(***************************************************************************)
(* C27: the title and the rendering of the first block                     *)
(***************************************************************************)
\* the first block of the document is classified Heading, with one '#'
FirstBlockIsH1 ==
    /\ markdown_to_blocks(markdown) # <<>>
    /\ block_to_block_type(markdown_to_blocks(markdown)[1]) = Ok(HEADING)
    /\ LeadingHashes(markdown_to_blocks(markdown)[1]) = 1

\* C27: extract_title returns a title if and only if the first block of
\* the document is classified Heading with level 1; when it returns t for
\* a rendered document, the first child of the tree is the "h1" of the
\* inline split of t.
C27_TitleAgreesWithRendering ==
    TitleCalled =>
        /\ pc \in {"titled", "written"} <=> FirstBlockIsH1
        /\ pc \in {"titled", "written"} =>
               /\ html_node.children # <<>>
               /\ html_node.children[1] =
                      ParentNode(<<"h", "1">>,
                                 text_to_children(html_title).val, NoneSeq)

(***************************************************************************)
(* C28: generate_pages_recursive over a content tree                       *)
(***************************************************************************)
\* the regular files of the tree with the suffix .md
MdFiles(tree) ==
    {e \in tree : e.kind = "file"
                  /\ Suffix(e.path[Len(e.path)]) = <<".", "m", "d">>}

\* every .md file of the content tree is a document generate_page accepts
AllPagesRender ==
    \A e \in MdFiles(content_dir) :
        PageOf(e.text, TemplateContent, BasePath).err = NoErr

\* the pages of the .md files, each at the mirrored path with the suffix
\* replaced
MirroredPages ==
    {File(WithSuffix(e.path, <<".", "h", "t", "m", "l">>),
          PageOf(e.text, TemplateContent, BasePath).val) :
        e \in MdFiles(content_dir)}

\* C28: for every existing content tree of directories and files whose
\* documents are valid, generate_pages_recursive does not raise; every call
\* of it is for a directory; when it has returned, the files under the
\* destination are exactly one .html page per .md file, at the mirrored
\* path.
C28_CompletesAndMirrors ==
    content_dir # NoTree /\ AllPagesRender =>
        /\ pc # "raised"
        /\ \A k \in 1..Len(frames) :
               IsDir(content_dir, frames[k].dir_path_content)
        /\ pc = "done" =>
               {e \in dest_dir : e.kind = "file"} = MirroredPages

=============================================================================
